---- MODULE Spec2Model ----
(***************************************************************************)
(* A model of the Aether module-composition runtime (src/src/lib/aether.ts):*)
(* the immutable builder (decorate/state/provide, onLoad/onUnload, use),    *)
(* the runtime tree (#buildTree), provider resolution (#initModule,         *)
(* #applyEntry), the lifecycle order (#lifecycleOrder) and start()/stop().  *)
(*                                                                         *)
(* JavaScript objects with identity (module definitions, runtime nodes)    *)
(* live in heaps (sequences indexed by their identity); plain objects used *)
(* as key/value maps are insertion-ordered sequences of [k, v] pairs, as    *)
(* Object.entries enumerates them.                                          *)
(***************************************************************************)
EXTENDS Integers, Sequences, FiniteSets, TLC

VARIABLES
    defs,         \* heap of ModuleDefinition objects: identity -> definition
    syms,         \* number of Symbol() values created so far
    app,          \* the Aether instance that start()/stop()/context act on
    running,      \* app.#running
    runtimeTree,  \* app.#runtimeTree: a node identity, or Null
    nodes,        \* heap of ModuleRuntimeContext objects: identity -> node
    calls,        \* the calls made on app so far, each with its position
    log,          \* what the calls did, in execution order
    observed,     \* what the caller last read from app.context, if it just did
    held,         \* the plugin instance a builder script holds beside app
    made,         \* the builder call a builder script made last
    script,       \* the modules the caller wrote to compose app, as written
    completed     \* the promises of async factories that have completed

vars == <<defs, syms, app, running, runtimeTree, nodes, calls, log, observed, held, made, script, completed>>

\* ------------------------------------------------------------------ bounds

\* The number of start()/stop()/context calls one behaviour makes on app.
MaxCalls == 3
\* The number of promises of async factories whose completion one behaviour
\* follows; the promises beyond it stay pending.
MaxCompletions == 1

\* The number of builder calls a builder script makes before it starts app.
MaxBuilds == 2

\* ------------------------------------------------------- JavaScript values

Null == 0

Undefined == [t |-> "undefined", id |-> "", m |-> <<>>]
Str(s) == [t |-> "string", id |-> s, m |-> <<>>]
\* A primitive that is neither a string nor undefined (a number such as 3000).
Raw(id) == [t |-> "number", id |-> id, m |-> <<>>]
Fn(id) == [t |-> "function", id |-> id, m |-> <<>>]
\* A plain object; m holds its own enumerable properties in insertion order.
Obj(m) == [t |-> "object", id |-> "", m |-> m]
\* null
JsNull == [t |-> "null", id |-> "", m |-> <<>>]
\* async (ctx) => ... : a function whose call returns a promise
AsyncFn(id) == [t |-> "function", id |-> id, m |-> <<[k |-> "async", v |-> Str("true")]>>]
IsAsync(fn) == fn.m # <<>>
\* a call that gives the completed result of an async function, as if awaited
CallResultAwaited(fn, ctx) == [t |-> "result", id |-> fn.id, m |-> ctx.m]
\* What calling the function fn with the argument ctx returns: a value that
\* names the function and everything the function was given to read; for an
\* async function, the promise of that value.
CallResult(fn, ctx) ==
    [t |-> IF IsAsync(fn) THEN "promise" ELSE "result", id |-> fn.id, m |-> ctx.m]

typeof(v) == v.t

\* An array; m holds its elements under their indices.
Arr(m) == [t |-> "object", id |-> "Array", m |-> m]
\* Array.isArray(v)
IsArray(v) == v.t = "object" /\ v.id = "Array"

\* !v
Falsy(v) ==
    \/ v.t \in {"undefined", "null"}
    \/ (v.t = "string" /\ v.id = "")
    \/ (v.t = "number" /\ v.id = "0")

\* ------------------------------------------------- plain objects as maps

\* k in m
MapHas(m, k) == \E i \in 1..Len(m) : m[i].k = k

\* m[k]
MapGet(m, k) ==
    IF MapHas(m, k) THEN m[CHOOSE i \in 1..Len(m) : m[i].k = k].v ELSE Undefined

\* m[k] = v : an existing key keeps its place, a new key is added last
MapSet(m, k, v) ==
    IF MapHas(m, k)
    THEN [i \in 1..Len(m) |-> IF m[i].k = k THEN [k |-> k, v |-> v] ELSE m[i]]
    ELSE Append(m, [k |-> k, v |-> v])

SameKey(e, k) == e.k = k

\* delete m[k]
MapDelete(m, k) == SelectSeq(m, LAMBDA e : ~SameKey(e, k))

RECURSIVE ObjectAssign(_, _)
\* Object.assign(target, src)
ObjectAssign(target, src) ==
    IF src = <<>> THEN target
    ELSE ObjectAssign(MapSet(target, Head(src).k, Head(src).v), Tail(src))

MapKeys(m) == {m[i].k : i \in 1..Len(m)}

\* ---------------------------------------------------------------- errors

NoErr == ""
ErrReserved == "Cannot use reserved key"
ErrDefined == "already defined"
ErrCollision == "collision"
ErrImport == "collision: already from"
ErrProvideOpts == "provide() requires options with 'kind' and 'scope'"
ErrInvalidArgs == "Invalid arguments"
ErrNotStarted == "not started"
ErrFactory == "factory threw"
ErrCallback == "callback threw"
ErrPluginFn == "Plugin function must return Aether instance"
ErrPluginType == "Invalid plugin type"
ErrExtendFn == "extend(name, fn) requires a function as second argument"

\* ----------------------------------------------------------- definitions

PROVIDER_KINDS == <<"decorator", "store">>
RESERVED_KEYS == [decorator |-> "decorator", store |-> "store"]

\* Symbol.for("aether:use:global")
GLOBAL_SCOPE == [t |-> "symbol", n |-> 0, s |-> "aether:use:global"]
\* Symbol(description), the n-th symbol created: symbols are equal by identity
NewSymbol(n, description) == [t |-> "symbol", n |-> n, s |-> description]
\* a caller-supplied scope name: strings are equal by value
ScopeName(s) == [t |-> "string", n |-> 0, s |-> s]

emptyDef == [providers |-> <<>>, loadCallbacks |-> <<>>, unloadCallbacks |-> <<>>, uses |-> <<>>]

\* a fresh object holding shallow copies of the four sequences of d
copyDef(d) ==
    [providers |-> d.providers, loadCallbacks |-> d.loadCallbacks,
     unloadCallbacks |-> d.unloadCallbacks, uses |-> d.uses]

\* The builder's world: the definition heap and the symbol counter.
World(h, n) == [defs |-> h, syms |-> n]
EmptyWorld == World(<<>>, 0)

\* An Aether instance: its name, the identity of its #def, its #extensionImpls.
Instance(name, def, ext) == [name |-> name, def |-> def, ext |-> ext]

\* What a builder call gives: the world after it, the instance returned,
\* and the error thrown (NoErr when it returned).
Returned(w, inst) == [w |-> w, inst |-> inst, err |-> NoErr]
Thrown(w, self, e) == [w |-> w, inst |-> self, err |-> e]

\* new Aether(name)
NewAether(w, name) ==
    Returned(World(Append(w.defs, emptyDef), w.syms),
             Instance(name, Len(w.defs) + 1, <<>>))

\* a #next that mutates the receiver's definition and returns the receiver
nextInPlace(w, self, mutated) ==
    IF mutated.err # NoErr THEN Thrown(w, self, mutated.err)
    ELSE Returned(World([w.defs EXCEPT ![self.def] = mutated.def], w.syms), self)

\* #next(mutate): copy the definition, mutate the copy, wrap it in a new
\* instance with the same extensions. mutated is what mutate made of the
\* copy, [def, err]; a mutate that throws leaves no instance behind.
next(w, self, mutated) ==
    IF mutated.err # NoErr THEN Thrown(w, self, mutated.err)
    ELSE Returned(World(Append(w.defs, mutated.def), w.syms),
                  Instance(self.name, Len(w.defs) + 1, self.ext))

Mutated(d) == [def |-> d, err |-> NoErr]
MutateThrew(d, e) == [def |-> d, err |-> e]

onLoad(w, self, callback) ==
    LET d == copyDef(w.defs[self.def])
    IN  next(w, self, Mutated([d EXCEPT !.loadCallbacks = Append(@, callback)]))

onUnload(w, self, callback) ==
    LET d == copyDef(w.defs[self.def])
    IN  next(w, self, Mutated([d EXCEPT !.unloadCallbacks = Append(@, callback)]))

\* ------------------------------------------------- provider registration

\* #isOpts(arg)
isOpts(arg) ==
    /\ ~Falsy(arg)
    /\ typeof(arg) = "object"
    /\ ~IsArray(arg)
    /\ \/ typeof(MapGet(arg.m, "scope")) = "string"
       \/ typeof(MapGet(arg.m, "kind")) = "string"

\* a ?? b on an option that is a string when present
OrElse(v, dflt) == IF typeof(v) = "undefined" THEN dflt ELSE v.id

Parsed(entries, config, isObjectForm) ==
    [entries |-> entries, config |-> config, isObjectForm |-> isObjectForm, err |-> NoErr]
ParseThrew(e) ==
    [entries |-> <<>>, config |-> [kind |-> "decorator", scope |-> "local", mode |-> "append"],
     isObjectForm |-> FALSE, err |-> e]

\* #parseArgs(args, defaultKind): args is the argument list of
\* decorate/state/provide, defaultKind is "provide", "decorator" or "store".
parseArgs(args, defaultKind) ==
    LET last == IF Len(args) = 0 THEN Undefined ELSE args[Len(args)]
        hasOpts == isOpts(last)
        opts == IF hasOpts THEN last.m ELSE <<>>
        kind == OrElse(MapGet(opts, "kind"),
                       IF defaultKind = "provide" THEN "decorator" ELSE defaultKind)
        scope == OrElse(MapGet(opts, "scope"), "local")
        mode == OrElse(MapGet(opts, "mode"), "append")
        config == [kind |-> kind, scope |-> scope, mode |-> mode]
        argsWithoutOpts == IF hasOpts THEN SubSeq(args, 1, Len(args) - 1) ELSE args
        arg0 == IF Len(argsWithoutOpts) >= 1 THEN argsWithoutOpts[1] ELSE Undefined
        arg1 == IF Len(argsWithoutOpts) >= 2 THEN argsWithoutOpts[2] ELSE Undefined
    IN  IF defaultKind = "provide" /\ ~hasOpts THEN ParseThrew(ErrProvideOpts)
        ELSE IF typeof(arg0) = "string"
            THEN Parsed(<<[k |-> arg0.id, v |-> arg1]>>, config, FALSE)
        ELSE IF ~Falsy(arg0) /\ typeof(arg0) = "object"
            THEN Parsed(arg0.m, config, TRUE)
        ELSE ParseThrew(ErrInvalidArgs)

\* the ProviderEntry #pushEntry builds
ProviderEntry(cfg, key, value, forceStatic) ==
    [kind |-> cfg.kind, key |-> key, value |-> value,
     export |-> cfg.scope # "local",
     transitive |-> cfg.scope = "global",
     isFactory |-> IF forceStatic THEN FALSE ELSE typeof(value) = "function",
     mode |-> cfg.mode]

\* a #pushEntry that takes any key
pushEntryAnyKey(thisDef, def, key, value, cfg, forceStatic) ==
    IF /\ cfg.mode = "append"
       /\ \E i \in 1..Len(thisDef.providers) :
             thisDef.providers[i].kind = cfg.kind /\ thisDef.providers[i].key = key
        THEN MutateThrew(def, ErrDefined)
    ELSE Mutated([def EXCEPT !.providers =
                     Append(@, ProviderEntry(cfg, key, value, forceStatic))])

\* a #pushEntry that does not look at what the module declares
pushEntryUnchecked(thisDef, def, key, value, cfg, forceStatic) ==
    IF key = RESERVED_KEYS[cfg.kind] THEN MutateThrew(def, ErrReserved)
    ELSE Mutated([def EXCEPT !.providers =
                     Append(@, ProviderEntry(cfg, key, value, forceStatic))])

\* #pushEntry(def, key, value, cfg, forceStatic), called on the instance
\* whose definition is thisDef; def is the copy being mutated.
pushEntry(thisDef, def, key, value, cfg, forceStatic) ==
    IF key = RESERVED_KEYS[cfg.kind] THEN MutateThrew(def, ErrReserved)
    ELSE IF /\ cfg.mode = "append"
            /\ \E i \in 1..Len(thisDef.providers) :
                  thisDef.providers[i].kind = cfg.kind /\ thisDef.providers[i].key = key
        THEN MutateThrew(def, ErrDefined)
    ELSE Mutated([def EXCEPT !.providers =
                     Append(@, ProviderEntry(cfg, key, value, forceStatic))])

RECURSIVE PushEntries(_, _, _, _)
\* the loop of #addProviders over parsed.entries, from entry i on
PushEntries(thisDef, mutated, parsed, i) ==
    IF mutated.err # NoErr \/ i > Len(parsed.entries) THEN mutated
    ELSE PushEntries(thisDef,
                     pushEntry(thisDef, mutated.def, parsed.entries[i].k,
                               parsed.entries[i].v, parsed.config, parsed.isObjectForm),
                     parsed, i + 1)

\* #addProviders(parsed)
addProviders(w, self, parsed) ==
    IF parsed.err # NoErr THEN Thrown(w, self, parsed.err)
    ELSE next(w, self,
              PushEntries(w.defs[self.def], Mutated(copyDef(w.defs[self.def])), parsed, 1))

provide(w, self, args) == addProviders(w, self, parseArgs(args, "provide"))
decorate(w, self, args) == addProviders(w, self, parseArgs(args, "decorator"))
state(w, self, args) == addProviders(w, self, parseArgs(args, "store"))

\* ------------------------------------------------------------ composition

\* a scope identity that names the plugin instead of being fresh
useScopeIdByName(n, pluginName, scope) ==
    IF Falsy(scope) \/ (typeof(scope) = "string" /\ scope.id = "global")
        THEN [scopeId |-> GLOBAL_SCOPE, syms |-> n]
    ELSE IF typeof(scope) = "string" /\ scope.id = "local"
        THEN [scopeId |-> ScopeName(pluginName), syms |-> n]
    ELSE [scopeId |-> ScopeName(scope.id), syms |-> n]

\* #useScopeId(pluginName, scope): the scope identity and the symbol
\* counter after it. scope is the option's value (Undefined when absent).
useScopeId(n, pluginName, scope) ==
    IF Falsy(scope) \/ (typeof(scope) = "string" /\ scope.id = "global")
        THEN [scopeId |-> GLOBAL_SCOPE, syms |-> n]
    ELSE IF typeof(scope) = "string" /\ scope.id = "local"
        THEN [scopeId |-> NewSymbol(n + 1, "local:"), syms |-> n + 1]
    ELSE [scopeId |-> ScopeName(scope.id), syms |-> n]

UseEdge(name, def, scopeId, transitive) ==
    [name |-> name, def |-> def, scopeId |-> scopeId, transitive |-> transitive]

\* a merge in which the plugin's extension replaces the receiver's
MergeOverwrites(merged, impls) == [ext |-> ObjectAssign(merged, impls), err |-> NoErr]

RECURSIVE MergeExtensions(_, _)
\* the loop of use() over plugin.#extensionImpls: [ext, err]
MergeExtensions(merged, impls) ==
    IF impls = <<>> THEN [ext |-> merged, err |-> NoErr]
    ELSE IF MapHas(merged, Head(impls).k) THEN [ext |-> merged, err |-> ErrCollision]
    ELSE MergeExtensions(MapSet(merged, Head(impls).k, Head(impls).v), Tail(impls))

\* a use() that does not look for the edge among the edges it has
useAetherAgain(w, self, plugin, options) ==
    LET sc == useScopeId(w.syms, plugin.name, MapGet(options, "scope"))
        as == MapGet(options, "as")
        nextDef == [copyDef(w.defs[self.def]) EXCEPT !.uses =
                       Append(@, UseEdge(plugin.name, plugin.def, sc.scopeId,
                                         ~(typeof(as) = "string" /\ as.id = "scoped")))]
        merged == MergeExtensions(self.ext, plugin.ext)
    IN  IF merged.err # NoErr THEN Thrown(World(w.defs, sc.syms), self, merged.err)
        ELSE Returned(World(Append(w.defs, nextDef), sc.syms),
                      Instance(self.name, Len(w.defs) + 1, merged.ext))

\* use(plugin, options) for a plugin that is an Aether instance;
\* options is the options object's property map (<<>> when absent).
useAether(w, self, plugin, options) ==
    LET pluginDef == plugin.def
        sc == useScopeId(w.syms, plugin.name, MapGet(options, "scope"))
        thisDef == w.defs[self.def]
        w1 == World(w.defs, sc.syms)
        as == MapGet(options, "as")
        nextDef == [copyDef(thisDef) EXCEPT !.uses =
                       Append(@, UseEdge(plugin.name, pluginDef, sc.scopeId,
                                         ~(typeof(as) = "string" /\ as.id = "scoped")))]
        merged == MergeExtensions(self.ext, plugin.ext)
    IN  IF \E i \in 1..Len(thisDef.uses) :
              thisDef.uses[i].def = pluginDef /\ thisDef.uses[i].scopeId = sc.scopeId
            THEN Returned(w1, self)
        ELSE IF merged.err # NoErr THEN Thrown(w1, self, merged.err)
        ELSE Returned(World(Append(w1.defs, nextDef), w1.syms),
                      Instance(self.name, Len(w1.defs) + 1, merged.ext))

\* What use() is given as its first argument: a value of type t; inst is the
\* instance when it is one, items are the elements when it is an array.
NoInstance == Instance("", 0, <<>>)
Plugin(t, id, inst, items) == [t |-> t, id |-> id, inst |-> inst, items |-> items]
AetherValue(inst) == Plugin("aether", "", inst, <<>>)
ArrayOf(items) == Plugin("array", "", NoInstance, items)
Primitive(v) == Plugin(v.t, v.id, NoInstance, <<>>)

\* What a call of a plugin function gives: the world after it and the value
\* returned, or the error thrown
Gave(w, value) == [w |-> w, value |-> value, err |-> NoErr]

\* plugin(this) for the plugin functions of the programs:
\*   identity      (app) => app
\*   withLogger    (app) => app.decorate("logger", console)
\*   returnsNothing (app) => { app.decorate("logger", console) }
CallPlugin(w, self, fn) ==
    LET r == decorate(w, self, <<Str("logger"), Raw("console")>>)
    IN  IF fn = "identity" THEN Gave(w, AetherValue(self))
        ELSE IF r.err # NoErr THEN [w |-> r.w, value |-> Primitive(Undefined), err |-> r.err]
        ELSE IF fn = "withLogger" THEN Gave(r.w, AetherValue(r.inst))
        ELSE Gave(r.w, Primitive(Undefined))

\* the plugin-function branch of use(), given what plugin(this) gave
UseResult(self, g) ==
    IF g.err # NoErr THEN Thrown(g.w, self, g.err)
    ELSE IF g.value.t # "aether" THEN Thrown(g.w, self, ErrPluginFn)
    ELSE Returned(g.w, g.value.inst)

RECURSIVE use(_, _, _, _)
RECURSIVE UseEach(_, _, _, _)

\* the loop of use() over an array of plugins, from element i on
UseEach(r, items, options, i) ==
    IF r.err # NoErr \/ i > Len(items) THEN r
    ELSE UseEach(use(r.w, r.inst, items[i], options), items, options, i + 1)

\* a use() that lets pass what it cannot compose
useLenient(w, self, plugin, options) ==
    IF Falsy(plugin) THEN Returned(w, self)
    ELSE IF plugin.t = "array" THEN UseEach(Returned(w, self), plugin.items, options, 1)
    ELSE IF plugin.t = "function" THEN UseResult(self, CallPlugin(w, self, plugin.id))
    ELSE IF plugin.t = "aether" THEN useAether(w, self, plugin.inst, options)
    ELSE Returned(w, self)

\* use(plugin, options); options is the options object's property map
\* (<<>> when absent)
use(w, self, plugin, options) ==
    IF Falsy(plugin) THEN Returned(w, self)
    ELSE IF plugin.t = "array" THEN UseEach(Returned(w, self), plugin.items, options, 1)
    ELSE IF plugin.t = "function" THEN UseResult(self, CallPlugin(w, self, plugin.id))
    ELSE IF plugin.t = "aether" THEN useAether(w, self, plugin.inst, options)
    ELSE Thrown(w, self, ErrPluginType)

\* extend(nameOrExtensions, fn): args is the argument list
extend(w, self, args) ==
    LET nameOrExtensions == IF Len(args) >= 1 THEN args[1] ELSE Undefined
        fn == IF Len(args) >= 2 THEN args[2] ELSE Undefined
    IN  IF typeof(nameOrExtensions) = "string"
        THEN IF Falsy(fn) THEN Thrown(w, self, ErrExtendFn)
             ELSE Returned(w, Instance(self.name, self.def,
                                       MapSet(self.ext, nameOrExtensions.id, fn)))
        ELSE Returned(w, Instance(self.name, self.def,
                                  ObjectAssign(self.ext, nameOrExtensions.m)))

\* an ext wrapper that drops what the extension produced
extDropsResult(w, self, name, args) == Returned(w, self)

\* this.ext[name](...args) = impl.call(this, ...args), for the extension of
\* the programs: register = function (name) { return this.onLoad(registered) }
ext(w, self, name, args) == onLoad(w, self, Fn("registered"))

\* ------------------------------------------------------------ runtime tree

EmptyProviders == [decorator |-> <<>>, store |-> <<>>]

\* the ModuleRuntimeContext #buildTree creates
RuntimeContext(name, def, children) ==
    [name |-> name, def |-> def, initialized |-> FALSE,
     providers |-> EmptyProviders, exportedProviders |-> EmptyProviders,
     propagatedProviders |-> EmptyProviders, providerOrigins |-> <<>>,
     callbackCtx |-> JsNull, children |-> children]

\* heap is the node heap, cache the set of [def, scopeId, node] the WeakMap
\* of Maps holds, node what was built
Built(heap, cache, node) == [heap |-> heap, cache |-> cache, node |-> node]

\* a cache that never has a node
NeverCached(cache, def, scopeId) == FALSE

\* a cache that never has the node of a "local" edge
CachedButLocal(cache, def, scopeId) ==
    /\ scopeId.s # "local:"
    /\ \E c \in cache : c.def = def /\ c.scopeId = scopeId

\* cache.get(def)?.get(scopeId) is set
Cached(cache, def, scopeId) == \E c \in cache : c.def = def /\ c.scopeId = scopeId
CacheGet(cache, def, scopeId) ==
    (CHOOSE c \in cache : c.def = def /\ c.scopeId = scopeId).node

\* const ctx = {...}; byScope.set(scopeId, ctx), once the children are built
\* (b.node holds them)
CreateContext(b, name, def, scopeId) ==
    Built(Append(b.heap, RuntimeContext(name, def, b.node)),
          b.cache \cup {[def |-> def, scopeId |-> scopeId, node |-> Len(b.heap) + 1]},
          Len(b.heap) + 1)

RECURSIVE buildTree(_, _, _, _, _)
RECURSIVE BuildChildren(_, _, _, _, _)
RECURSIVE NextChild(_, _, _, _)

\* def.uses.map((u) => this.#buildTree(u.name, u.def, cache, u.scopeId)),
\* from edge i on; kids are the children built so far
BuildChildren(heap, cache, uses, i, kids) ==
    IF i > Len(uses) THEN Built(heap, cache, kids)
    ELSE NextChild(buildTree(heap, cache, uses[i].name, uses[i].def, uses[i].scopeId),
                   uses, i, kids)

NextChild(b, uses, i, kids) ==
    BuildChildren(b.heap, b.cache, uses, i + 1, Append(kids, b.node))

\* #buildTree(name, def, cache, scopeId)
buildTree(heap, cache, name, def, scopeId) ==
    IF Cached(cache, def, scopeId) THEN Built(heap, cache, CacheGet(cache, def, scopeId))
    ELSE CreateContext(BuildChildren(heap, cache, defs[def].uses, 1, <<>>),
                       name, def, scopeId)

RECURSIVE visit(_, _, _)
RECURSIVE VisitChildren(_, _, _, _)

\* order.push(node)
Push(acc, node) == [acc EXCEPT !.order = Append(@, node)]

\* for (const c of node.children) visit(c), from child i on
VisitChildren(heap, acc, children, i) ==
    IF i > Len(children) THEN acc
    ELSE VisitChildren(heap, visit(heap, acc, children[i]), children, i + 1)

\* visit(node) with order.push(node) moved before the loop over the children
visitParentFirst(heap, acc, node) ==
    IF node \in acc.visited THEN acc
    ELSE VisitChildren(heap, Push([acc EXCEPT !.visited = @ \cup {node}], node),
                       heap[node].children, 1)

\* visit(node) of #lifecycleOrder; acc is [order, visited]
visit(heap, acc, node) ==
    IF node \in acc.visited THEN acc
    ELSE Push(VisitChildren(heap, [acc EXCEPT !.visited = @ \cup {node}],
                            heap[node].children, 1),
              node)

\* #lifecycleOrder(root)
lifecycleOrder(heap, root) == visit(heap, [order |-> <<>>, visited |-> {}], root).order

\* the order left as #lifecycleOrder gave it
NotReversed(order) == order

\* [...order].reverse()
Reverse(order) == [i \in 1..Len(order) |-> order[Len(order) + 1 - i]]

\* ---------------------------------------------------- provider resolution

ProviderOrigin(kind, key, moduleName, isExported) ==
    [kind |-> kind, key |-> key, moduleName |-> moduleName, isExported |-> isExported]

\* `${kind}:${key}`
OriginKey(kind, key) == <<kind, key>>

\* a node as a resolution step left it, and the error the step threw
Resolved(ctx) == [ctx |-> ctx, err |-> NoErr]
ResolveThrew(ctx, e) == [ctx |-> ctx, err |-> e]

\* { ...decorator, decorator: decorator, store: store }
ContextObject(providers) ==
    Obj(MapSet(MapSet(providers.decorator, "decorator", Obj(providers.decorator)),
               "store", Obj(providers.store)))

\* const factoryCtx = kind === "decorator" ? {...} : local[kind]
FactoryCtx(kind, local) ==
    IF kind = "decorator" THEN ContextObject(local) ELSE Obj(local[kind])

\* const resolved = entry.isFactory ? entry.value(factoryCtx) : entry.value
ResolveEntry(entry, local) ==
    IF entry.isFactory THEN CallResult(entry.value, FactoryCtx(entry.kind, local))
    ELSE entry.value

\* an override that deletes nothing
KeepOnOverride(entry, m) == m

\* if (mode === "override") delete m[key]
DeleteOnOverride(entry, m) ==
    IF entry.mode = "override" THEN MapDelete(m, entry.key) ELSE m

\* the writes of #applyEntry, resolved being the entry's value
WriteEntry(entry, ctx, resolved) ==
    [ctx EXCEPT
        !.providers[entry.kind] = MapSet(@, entry.key, resolved),
        !.exportedProviders[entry.kind] =
            IF entry.export THEN MapSet(DeleteOnOverride(entry, @), entry.key, resolved)
            ELSE DeleteOnOverride(entry, @),
        !.propagatedProviders[entry.kind] =
            IF entry.export /\ entry.transitive
            THEN MapSet(DeleteOnOverride(entry, @), entry.key, resolved)
            ELSE DeleteOnOverride(entry, @),
        !.providerOrigins =
            MapSet(@, OriginKey(entry.kind, entry.key),
                   ProviderOrigin(entry.kind, entry.key, ctx.name, entry.export))]

\* #applyEntry(entry, moduleName, local, exported, propagated, origins) on the
\* maps of ctx; the functions named in throwing throw when called
applyEntry(entry, ctx, throwing) ==
    IF entry.mode = "append" /\ MapHas(ctx.providers[entry.kind], entry.key)
        THEN ResolveThrew(ctx, ErrCollision)
    ELSE IF entry.isFactory /\ entry.value.id \in throwing
        THEN ResolveThrew(ctx, ErrFactory)
    ELSE Resolved(WriteEntry(entry, ctx, ResolveEntry(entry, ctx.providers)))

RECURSIVE ImportOverwrites(_, _, _, _, _)
\* an import in which a later child's provider replaces an earlier one's
ImportOverwrites(ctx, childName, kind, entries, i) ==
    IF i > Len(entries) THEN Resolved(ctx)
    ELSE ImportOverwrites(
            [ctx EXCEPT
                !.providers[kind] = MapSet(@, entries[i].k, entries[i].v),
                !.providerOrigins =
                    MapSet(@, OriginKey(kind, entries[i].k),
                           ProviderOrigin(kind, entries[i].k, childName, TRUE))],
            childName, kind, entries, i + 1)

RECURSIVE ImportDeduplicated(_, _, _, _, _)
\* an import that takes a provider it already holds with the same value for
\* the same provider, and does not throw
ImportDeduplicated(ctx, childName, kind, entries, i) ==
    IF i > Len(entries) THEN Resolved(ctx)
    ELSE IF MapHas(ctx.providers[kind], entries[i].k)
            /\ MapGet(ctx.providers[kind], entries[i].k) # entries[i].v
        THEN ResolveThrew(ctx, ErrImport)
    ELSE ImportDeduplicated(
            [ctx EXCEPT
                !.providers[kind] = MapSet(@, entries[i].k, entries[i].v),
                !.providerOrigins =
                    MapSet(@, OriginKey(kind, entries[i].k),
                           ProviderOrigin(kind, entries[i].k, childName, TRUE))],
            childName, kind, entries, i + 1)

RECURSIVE ImportEntries(_, _, _, _, _)
\* for (const [k, v] of Object.entries(child.exportedProviders[kind])), from
\* entry i on
ImportEntries(ctx, childName, kind, entries, i) ==
    IF i > Len(entries) THEN Resolved(ctx)
    ELSE IF MapHas(ctx.providers[kind], entries[i].k) THEN ResolveThrew(ctx, ErrImport)
    ELSE ImportEntries(
            [ctx EXCEPT
                !.providers[kind] = MapSet(@, entries[i].k, entries[i].v),
                !.providerOrigins =
                    MapSet(@, OriginKey(kind, entries[i].k),
                           ProviderOrigin(kind, entries[i].k, childName, TRUE))],
            childName, kind, entries, i + 1)

RECURSIVE ImportLocal(_, _, _)
\* a resolution that imports all a child has, not what it exports
ImportLocal(r, child, n) ==
    IF r.err # NoErr \/ n > Len(PROVIDER_KINDS) THEN r
    ELSE ImportLocal(ImportEntries(r.ctx, child.name, PROVIDER_KINDS[n],
                                   child.providers[PROVIDER_KINDS[n]], 1),
                     child, n + 1)

RECURSIVE ImportExported(_, _, _)
\* "Import exported providers" of #initModule for one child: for (const kind
\* of PROVIDER_KINDS), from kind number n on
ImportExported(r, child, n) ==
    IF r.err # NoErr \/ n > Len(PROVIDER_KINDS) THEN r
    ELSE ImportExported(ImportEntries(r.ctx, child.name, PROVIDER_KINDS[n],
                                      child.exportedProviders[PROVIDER_KINDS[n]], 1),
                        child, n + 1)

\* a resolution that propagates nothing
PropagateNothing(r, child, edge) == r

\* a resolution that propagates whatever the use edge says
PropagateAlways(r, child, edge) ==
    IF r.err # NoErr THEN r
    ELSE Resolved([r.ctx EXCEPT
            !.exportedProviders =
                [decorator |-> ObjectAssign(@.decorator, child.propagatedProviders.decorator),
                 store |-> ObjectAssign(@.store, child.propagatedProviders.store)],
            !.propagatedProviders =
                [decorator |-> ObjectAssign(@.decorator, child.propagatedProviders.decorator),
                 store |-> ObjectAssign(@.store, child.propagatedProviders.store)]])

\* a resolution that passes on what the child exports, not what it propagates
PropagateExported(r, child, edge) ==
    IF r.err # NoErr \/ ~(edge.transitive # FALSE) THEN r
    ELSE Resolved([r.ctx EXCEPT
            !.exportedProviders =
                [decorator |-> ObjectAssign(@.decorator, child.exportedProviders.decorator),
                 store |-> ObjectAssign(@.store, child.exportedProviders.store)],
            !.propagatedProviders =
                [decorator |-> ObjectAssign(@.decorator, child.exportedProviders.decorator),
                 store |-> ObjectAssign(@.store, child.exportedProviders.store)]])

\* "Propagate transitive" of #initModule for one child
PropagateTransitive(r, child, edge) ==
    IF r.err # NoErr \/ ~(edge.transitive # FALSE) THEN r
    ELSE Resolved([r.ctx EXCEPT
            !.exportedProviders =
                [decorator |-> ObjectAssign(@.decorator, child.propagatedProviders.decorator),
                 store |-> ObjectAssign(@.store, child.propagatedProviders.store)],
            !.propagatedProviders =
                [decorator |-> ObjectAssign(@.decorator, child.propagatedProviders.decorator),
                 store |-> ObjectAssign(@.store, child.propagatedProviders.store)]])

\* the body of the loop of #initModule over the children, for one child
ImportChild(ctx, child, edge) ==
    PropagateTransitive(ImportExported(Resolved(ctx), child, 1), child, edge)

RECURSIVE ImportChildren(_, _, _)
\* the loop of #initModule over ctx.children, from child i on
ImportChildren(heap, r, i) ==
    IF r.err # NoErr \/ i > Len(r.ctx.children) THEN r
    ELSE ImportChildren(heap,
                        ImportChild(r.ctx, heap[r.ctx.children[i]], defs[r.ctx.def].uses[i]),
                        i + 1)

RECURSIVE ApplyOwn(_, _, _, _)
\* for (const entry of def.providers) this.#applyEntry(...), from entry i on
ApplyOwn(r, entries, i, throwing) ==
    IF r.err # NoErr \/ i > Len(entries) THEN r
    ELSE ApplyOwn(applyEntry(entries[i], r.ctx, throwing), entries, i + 1, throwing)

\* ctx.callbackCtx = {...}; ctx.initialized = true, unless a step threw; the
\* node is written back to the heap with what the steps wrote
Initialized(heap, n, r) ==
    IF r.err # NoErr THEN [heap |-> [heap EXCEPT ![n] = r.ctx], err |-> r.err]
    ELSE [heap |-> [heap EXCEPT ![n] =
                       [r.ctx EXCEPT !.callbackCtx = ContextObject(r.ctx.providers),
                                     !.initialized = TRUE]],
          err |-> NoErr]

\* #initModule(ctx) on node n of the heap: the heap after it and the error it
\* threw. What it wrote before throwing stays written.
initModule(heap, n, throwing) ==
    IF heap[n].initialized THEN [heap |-> heap, err |-> NoErr]
    ELSE Initialized(heap, n,
            ApplyOwn(ImportChildren(heap, Resolved(heap[n]), 1),
                     defs[heap[n].def].providers, 1, throwing))

\* -------------------------------------------------------------- lifecycle

\* The instance's mutable state a call works on.
State(r, t, h, n, l) == [running |-> r, runtimeTree |-> t, nodes |-> h, syms |-> n, log |-> l]

\* One call on the instance: op is "start" or "stop"; status is "awaiting"
\* (suspended at the await of callback j of node order[i]), "returned" or
\* "threw"; order is the call's local `order` (<<>> for a call that returned
\* at its guard).
Frame(op, status, order, i, j, err) ==
    [op |-> op, status |-> status, order |-> order, i |-> i, j |-> j, err |-> err]

\* What call c did: ev is "tree" (start() built the tree with root node),
\* "init" (#initModule returned), "initThrew", "load" (onLoad callback cb of
\* the node invoked), "loaded" (it completed), "loadThrew", "stopping" (stop()
\* passed its guard and read #runtimeTree, node), "unload", "unloaded",
\* "unloadThrew".
Event(c, ev, node, cb) == [call |-> c, ev |-> ev, node |-> node, cb |-> cb]

Logged(st, e) == [st EXCEPT !.log = Append(@, e)]

\* the instance's state and the call's position when the call suspends or ends
Step(st, frame) == [st |-> st, frame |-> frame]

\* a start() that rethrows without cleanup
StartCatchForgets(st) == st

\* the catch block of start()
StartCatch(st) == [st EXCEPT !.runtimeTree = Null, !.running = FALSE]

\* a stop() without cleanup
StopFinallyForgets(st) == st

\* the finally block of stop()
StopFinally(st) == [st EXCEPT !.running = FALSE, !.runtimeTree = Null]

RECURSIVE StartLoop(_, _, _, _, _)
RECURSIVE LoadCallbacks(_, _, _, _, _, _)
RECURSIVE AfterInit(_, _, _, _, _, _)

\* a loop that invokes each onLoad callback without awaiting the one before
LoadCallbacksUnawaited(st, c, order, i, j, throwing) ==
    IF j > Len(defs[st.nodes[order[i]].def].loadCallbacks)
    THEN StartLoop(st, c, order, i + 1, throwing)
    ELSE IF j < Len(defs[st.nodes[order[i]].def].loadCallbacks)
    THEN LoadCallbacks(Logged(st, Event(c, "load", order[i], j)), c, order, i, j + 1, throwing)
    ELSE Step(Logged(st, Event(c, "load", order[i], j)),
              Frame("start", "awaiting", order, i, j, NoErr))

\* for (const cb of ctx.def.loadCallbacks) await cb(ctx.callbackCtx), from
\* callback j of node order[i] on: runs until a callback is invoked and
\* awaited, or the loops end, or #initModule throws
LoadCallbacks(st, c, order, i, j, throwing) ==
    IF j > Len(defs[st.nodes[order[i]].def].loadCallbacks)
    THEN StartLoop(st, c, order, i + 1, throwing)
    ELSE Step(Logged(st, Event(c, "load", order[i], j)),
              Frame("start", "awaiting", order, i, j, NoErr))

\* the body of start()'s loop for node order[i] once #initModule gave r
AfterInit(st, r, c, order, i, throwing) ==
    IF r.err # NoErr
    THEN Step(StartCatch(Logged([st EXCEPT !.nodes = r.heap],
                                Event(c, "initThrew", order[i], 0))),
              Frame("start", "threw", order, i, 0, r.err))
    ELSE LoadCallbacks(Logged([st EXCEPT !.nodes = r.heap], Event(c, "init", order[i], 0)),
                       c, order, i, 1, throwing)

\* for (const ctx of order) { this.#initModule(ctx); ... }, from node i on
StartLoop(st, c, order, i, throwing) ==
    IF i > Len(order) THEN Step(st, Frame("start", "returned", order, i, 0, NoErr))
    ELSE AfterInit(st, initModule(st.nodes, order[i], throwing), c, order, i, throwing)

\* start() from `const order = ...` on, b being what #buildTree gave
StartTree(st, b, c, throwing) ==
    StartLoop(Logged([st EXCEPT !.nodes = b.heap, !.syms = @ + 1,
                                !.runtimeTree = b.node, !.running = TRUE],
                     Event(c, "tree", b.node, 0)),
              c, lifecycleOrder(b.heap, b.node), 1, throwing)

\* start() without its guard
startUnguarded(st, c, throwing) ==
    StartTree(st,
              buildTree(st.nodes, {}, app.name, app.def, NewSymbol(st.syms + 1, "root:")),
              c, throwing)

\* start() with a cache that outlives the call: the nodes built so far under
\* the global scope are found again
startKeepsCache(st, c, throwing) ==
    IF st.running THEN Step(st, Frame("start", "returned", <<>>, 0, 0, NoErr))
    ELSE StartTree(st,
                   buildTree(st.nodes,
                             {[def |-> st.nodes[n].def, scopeId |-> GLOBAL_SCOPE, node |-> n] :
                                 n \in 1..Len(st.nodes)},
                             app.name, app.def, NewSymbol(st.syms + 1, "root:")),
                   c, throwing)

\* start(), as call c, up to its first await (or its end)
start(st, c, throwing) ==
    IF st.running THEN Step(st, Frame("start", "returned", <<>>, 0, 0, NoErr))
    ELSE StartTree(st,
                   buildTree(st.nodes, {}, app.name, app.def, NewSymbol(st.syms + 1, "root:")),
                   c, throwing)

\* start() with a catch block that goes on with the next callback
startResumeSwallows(st, c, frame, ok, throwing) ==
    LoadCallbacks(Logged(st, Event(c, IF ok THEN "loaded" ELSE "loadThrew",
                                   frame.order[frame.i], frame.j)),
                  c, frame.order, frame.i, frame.j + 1, throwing)

\* start() resumed at its await: the callback awaited completed (ok) or threw
startResume(st, c, frame, ok, throwing) ==
    IF ok
    THEN LoadCallbacks(Logged(st, Event(c, "loaded", frame.order[frame.i], frame.j)),
                       c, frame.order, frame.i, frame.j + 1, throwing)
    ELSE Step(StartCatch(Logged(st, Event(c, "loadThrew", frame.order[frame.i], frame.j))),
              Frame("start", "threw", frame.order, frame.i, frame.j, ErrCallback))

RECURSIVE UnloadCallbacks(_, _, _, _, _)
\* the loops of stop() from callback j of node order[i] on: runs until a
\* callback is invoked and awaited, or the loops end
UnloadCallbacks(st, c, order, i, j) ==
    IF i > Len(order)
        THEN Step(StopFinally(st), Frame("stop", "returned", order, i, 0, NoErr))
    ELSE IF j > Len(defs[st.nodes[order[i]].def].unloadCallbacks)
        THEN UnloadCallbacks(st, c, order, i + 1, 1)
    ELSE Step(Logged(st, Event(c, "unload", order[i], j)),
              Frame("stop", "awaiting", order, i, j, NoErr))

\* stop(), as call c, up to its first await (or its end)
stop(st, c) ==
    IF ~(st.running /\ st.runtimeTree # Null)
    THEN Step(st, Frame("stop", "returned", <<>>, 0, 0, NoErr))
    ELSE UnloadCallbacks(Logged(st, Event(c, "stopping", st.runtimeTree, 0)),
                         c, Reverse(lifecycleOrder(st.nodes, st.runtimeTree)), 1, 1)

\* stop() with its cleanup after the loops instead of in a finally block
stopResumeNoFinally(st, c, frame, ok) ==
    IF ok
    THEN UnloadCallbacks(Logged(st, Event(c, "unloaded", frame.order[frame.i], frame.j)),
                         c, frame.order, frame.i, frame.j + 1)
    ELSE Step(Logged(st, Event(c, "unloadThrew", frame.order[frame.i], frame.j)),
              Frame("stop", "threw", frame.order, frame.i, frame.j, ErrCallback))

\* stop() resumed at its await
stopResume(st, c, frame, ok) ==
    IF ok
    THEN UnloadCallbacks(Logged(st, Event(c, "unloaded", frame.order[frame.i], frame.j)),
                         c, frame.order, frame.i, frame.j + 1)
    ELSE Step(StopFinally(Logged(st, Event(c, "unloadThrew", frame.order[frame.i], frame.j))),
              Frame("stop", "threw", frame.order, frame.i, frame.j, ErrCallback))

\* get context(): the value returned, or the error thrown
context(st) ==
    IF ~(st.running /\ st.runtimeTree # Null)
    THEN [err |-> ErrNotStarted, value |-> JsNull]
    ELSE [err |-> NoErr, value |-> st.nodes[st.runtimeTree].callbackCtx]

\* get isRunning()
isRunning(st) == st.running

\* ------------------------------------------------------ module programs

\* A module written with the builder: new Aether(name), then its use(),
\* decorate()/state()/provide(), onLoad() and onUnload() calls in order.
ModuleSpec(name, uses, provs, loads, unloads) ==
    [name |-> name, uses |-> uses, provs |-> provs, loads |-> loads, unloads |-> unloads]
\* use(<the m-th module built>, options)
UseSpec(m, options) == [m |-> m, options |-> options]
\* decorate(...args) / state(...args) / provide(...args)
ProvSpec(op, args) == [op |-> op, args |-> args]

Prop(k, v) == <<[k |-> k, v |-> v]>>

\* the options of a use() call: { as } when given
UseOptions(as) == IF as = "" THEN <<>> ELSE Prop("as", Str(as))
UseOptionsIn(scope, as) ==
    (IF scope = "" THEN <<>> ELSE Prop("scope", Str(scope))) \o UseOptions(as)

\* the arguments (key, value, { scope, mode }), the options left out when
\* both are the defaults
DeclArgs(key, value, scope, mode) ==
    IF scope = "local" /\ mode = "append" THEN <<Str(key), value>>
    ELSE <<Str(key), value, Obj(Prop("scope", Str(scope)) \o
           (IF mode = "append" THEN <<>> ELSE Prop("mode", Str(mode))))>>

DeclOp(kind) == IF kind = "decorator" THEN "decorate" ELSE "state"

RECURSIVE ApplyUses(_, _, _, _)
ApplyUses(r, built, uses, i) ==
    IF r.err # NoErr \/ i > Len(uses) THEN r
    ELSE ApplyUses(useAether(r.w, r.inst, built[uses[i].m], uses[i].options),
                   built, uses, i + 1)

RECURSIVE ApplyProvs(_, _, _)
ApplyProvs(r, provs, i) ==
    IF r.err # NoErr \/ i > Len(provs) THEN r
    ELSE ApplyProvs(CASE provs[i].op = "decorate" -> decorate(r.w, r.inst, provs[i].args)
                      [] provs[i].op = "state" -> state(r.w, r.inst, provs[i].args)
                      [] OTHER -> provide(r.w, r.inst, provs[i].args),
                    provs, i + 1)

RECURSIVE ApplyLoads(_, _, _)
ApplyLoads(r, cbs, i) ==
    IF r.err # NoErr \/ i > Len(cbs) THEN r
    ELSE ApplyLoads(onLoad(r.w, r.inst, cbs[i]), cbs, i + 1)

RECURSIVE ApplyUnloads(_, _, _)
ApplyUnloads(r, cbs, i) ==
    IF r.err # NoErr \/ i > Len(cbs) THEN r
    ELSE ApplyUnloads(onUnload(r.w, r.inst, cbs[i]), cbs, i + 1)

BuildModule(w, built, ms) ==
    ApplyUnloads(
        ApplyLoads(
            ApplyProvs(ApplyUses(NewAether(w, ms.name), built, ms.uses, 1), ms.provs, 1),
            ms.loads, 1),
        ms.unloads, 1)

RECURSIVE BuildProgram(_, _, _, _)
RECURSIVE BuildNext(_, _, _, _)

\* the modules of program, built in order from module i on: [w, built, err]
BuildProgram(w, built, program, i) ==
    IF i > Len(program) THEN [w |-> w, built |-> built, err |-> NoErr]
    ELSE BuildNext(BuildModule(w, built, program[i]), built, program, i)

BuildNext(r, built, program, i) ==
    IF r.err # NoErr THEN [w |-> r.w, built |-> built, err |-> r.err]
    ELSE BuildProgram(r.w, Append(built, r.inst), program, i + 1)

Kinds == {"decorator", "store"}
Scopes == {"local", "scoped", "global"}

\* A uses B uses C uses D. D declares k with the given kind and scope; C may
\* redeclare k; the edges into D and into C may be { as: "scoped" }.
Chain(kind, scope, redecl, asCD, asBC) ==
    << ModuleSpec("D", <<>>,
                  <<ProvSpec(DeclOp(kind), DeclArgs("k", Raw("vD"), scope, "append"))>>,
                  <<Fn("D.load1"), Fn("D.load2")>>, <<Fn("D.unload1")>>),
       ModuleSpec("C", <<UseSpec(1, UseOptions(asCD))>>,
                  IF redecl = "" THEN <<>>
                  ELSE <<ProvSpec(DeclOp(kind), DeclArgs("k", Raw("vC"), "local", redecl))>>,
                  <<>>, <<Fn("C.unload1")>>),
       ModuleSpec("B", <<UseSpec(2, UseOptions(asBC))>>, <<>>, <<>>, <<>>),
       ModuleSpec("A", <<UseSpec(3, <<>>)>>,
                  <<ProvSpec("decorate", DeclArgs("port", Raw("3000"), "global", "append")),
                    ProvSpec("decorate", DeclArgs("server", Fn("makeServer"), "global", "append"))>>,
                  <<Fn("A.load1")>>, <<Fn("A.unload1")>>) >>

\* A uses B and C, both use D. D declares k; B declares b for itself; the
\* edges into D carry the given scope options.
Diamond(scope, scopeBD, scopeCD) ==
    << ModuleSpec("D", <<>>,
                  <<ProvSpec("state", DeclArgs("k", Raw("vD"), scope, "append"))>>,
                  <<Fn("D.load1")>>, <<Fn("D.unload1")>>),
       ModuleSpec("B", <<UseSpec(1, UseOptionsIn(scopeBD, ""))>>,
                  <<ProvSpec("state", DeclArgs("b", Raw("vB"), "local", "append"))>>,
                  <<>>, <<Fn("B.unload1")>>),
       ModuleSpec("C", <<UseSpec(1, UseOptionsIn(scopeCD, ""))>>, <<>>,
                  <<Fn("C.load1")>>, <<>>),
       ModuleSpec("A", <<UseSpec(2, <<>>), UseSpec(3, <<>>)>>, <<>>,
                  <<Fn("A.load1")>>, <<>>) >>

\* A uses B and C; B and C each declare k for their parent, with the modes
\* given.
Fork(modeB, modeC) ==
    << ModuleSpec("B", <<>>,
                  <<ProvSpec("state", DeclArgs("k", Raw("vB"), "scoped", modeB))>>, <<>>, <<>>),
       ModuleSpec("C", <<>>,
                  <<ProvSpec("state", DeclArgs("k", Raw("vC"), "scoped", modeC))>>, <<>>, <<>>),
       ModuleSpec("A", <<UseSpec(1, <<>>), UseSpec(2, <<>>)>>, <<>>, <<>>, <<>>) >>

\* A uses B; B decorates conn with an async factory and repo with a factory
\* that reads the context, both for its parent.
Lazy ==
    << ModuleSpec("B", <<>>,
                  <<ProvSpec("decorate", DeclArgs("conn", AsyncFn("connect"), "scoped", "append")),
                    ProvSpec("decorate", DeclArgs("repo", Fn("makeRepo"), "scoped", "append"))>>,
                  <<Fn("B.load1")>>, <<>>),
       ModuleSpec("A", <<UseSpec(1, <<>>)>>, <<>>, <<>>, <<>>) >>

Programs ==
    {Chain(kind, scope, redecl, "", "") :
        kind \in Kinds, scope \in Scopes, redecl \in {"", "override"}}
    \cup {Chain("store", scope, "", as[1], as[2]) :
        scope \in {"scoped", "global"},
        as \in {<<"scoped", "">>, <<"", "scoped">>, <<"scoped", "scoped">>}}
    \cup {Chain("decorator", "global", "append", "", "")}
    \cup {Diamond(scope, into[1], into[2]) :
        scope \in Scopes, into \in {<<"", "">>, <<"local", "">>, <<"local", "local">>}}
    \cup {Diamond("scoped", into[1], into[2]) :
        into \in {<<"global", "">>, <<"s", "s">>, <<"s", "t">>, <<"s", "">>}}
    \cup {Fork(modeB, modeC) : modeB, modeC \in {"append", "override"}}
    \cup {Lazy}

\* ------------------------------------------------------------ the machine

NotRead == [read |-> FALSE, err |-> NoErr, value |-> JsNull]

Current == State(running, runtimeTree, nodes, syms, log)

\* the instance's state becomes st
Becomes(st) ==
    /\ running' = st.running
    /\ runtimeTree' = st.runtimeTree
    /\ nodes' = st.nodes
    /\ syms' = st.syms
    /\ log' = st.log

\* the functions some provider entry calls as a factory and that can throw
\* to their caller (an async function rejects its promise instead)
Factories ==
    UNION {{defs[d].providers[i].value.id :
               i \in {j \in 1..Len(defs[d].providers) :
                          /\ defs[d].providers[j].isFactory
                          /\ ~IsAsync(defs[d].providers[j].value)}} :
           d \in 1..Len(defs)}

\* no builder call was made
NoCall ==
    [n |-> 0, op |-> "", onApp |-> FALSE, recv |-> NoInstance, args |-> <<>>,
     arg |-> Primitive(Undefined), options |-> <<>>,
     err |-> NoErr, inst |-> NoInstance, defs |-> <<>>]

\* app is the last module of a program the builder accepted
InitWith(b) ==
    /\ b.err = NoErr
    /\ defs = b.w.defs
    /\ syms = b.w.syms
    /\ app = b.built[Len(b.built)]
    /\ running = FALSE
    /\ runtimeTree = Null
    /\ nodes = <<>>
    /\ calls = <<>>
    /\ log = <<>>
    /\ observed = NotRead
    /\ held = NoInstance
    /\ made = NoCall
    /\ completed = {}

Init ==
    \E program \in Programs :
        InitWith(BuildProgram(EmptyWorld, <<>>, program, 1)) /\ script = program

\* a new call reached its first await, or its end
Called(r) == Becomes(r.st) /\ calls' = Append(calls, r.frame)
\* call c reached its next await, or its end
Resumed(c, r) == Becomes(r.st) /\ calls' = [calls EXCEPT ![c] = r.frame]

\* app.start() is called; the factories named in throwing throw if called
\* before the call first suspends
Start(throwing) ==
    /\ Len(calls) < MaxCalls
    /\ Called(start(Current, Len(calls) + 1, throwing))
    /\ observed' = NotRead
    /\ UNCHANGED <<defs, app, held, made, script, completed>>

\* app.stop() is called
Stop ==
    /\ Len(calls) < MaxCalls
    /\ Called(stop(Current, Len(calls) + 1))
    /\ observed' = NotRead
    /\ UNCHANGED <<defs, app, held, made, script, completed>>

\* the callback call c awaits completes (ok) or throws, and the call runs on
\* to its next await or to its end
Settle(c, ok, throwing) ==
    /\ calls[c].status = "awaiting"
    /\ Resumed(c, IF calls[c].op = "start"
                  THEN startResume(Current, c, calls[c], ok, throwing)
                  ELSE stopResume(Current, c, calls[c], ok))
    /\ observed' = NotRead
    /\ UNCHANGED <<defs, app, held, made, script, completed>>

\* the caller reads app.context
ReadContext ==
    /\ observed = NotRead
    /\ observed' = [read |-> TRUE] @@ context(Current)
    /\ UNCHANGED <<defs, syms, app, running, runtimeTree, nodes, calls, log, held, made, script, completed>>

\* the own provider entries <<node, i>> whose async factory was called: the
\* node holds the promise the call returned
Promised ==
    UNION {{<<n, i>> : i \in {j \in 1..Len(defs[nodes[n].def].providers) :
                /\ defs[nodes[n].def].providers[j].isFactory
                /\ IsAsync(defs[nodes[n].def].providers[j].value)
                /\ MapGet(nodes[n].providers[defs[nodes[n].def].providers[j].kind],
                          defs[nodes[n].def].providers[j].key).t = "promise"}} :
           n \in 1..Len(nodes)}

\* the promise an async factory returned completes, at some time after the
\* call that made it: no call of the instance waits for it
FactoryCompletes(n, i) ==
    /\ <<n, i>> \notin completed
    /\ Cardinality(completed) < MaxCompletions
    /\ completed' = completed \cup {<<n, i>>}
    /\ UNCHANGED <<defs, syms, app, running, runtimeTree, nodes, calls, log, observed, held,
                   made, script>>

\* The caller awaits every call before it makes the next one.
Settled == \A c \in 1..Len(calls) : calls[c].status # "awaiting"

AwaitedStart == \E throwing \in SUBSET Factories : Settled /\ Start(throwing)
AwaitedStop == Settled /\ Stop
AwaitedRead == Settled /\ ReadContext
Completion == \E c \in 1..Len(calls) : \E throwing \in SUBSET Factories : Settle(c, TRUE, throwing)
Rejection == \E c \in 1..Len(calls) : Settle(c, FALSE, {})

PromiseCompletion == \E t \in Promised : FactoryCompletes(t[1], t[2])

Next ==
    AwaitedStart \/ AwaitedStop \/ AwaitedRead \/ Completion \/ Rejection \/ PromiseCompletion

Spec == Init /\ [][Next]_vars

\* ------------------------------------------------------- shared sub-modules

\* A uses M twice, under the scope names "s" and "t"; M uses E with scope
\* "local"; E declares k for itself.
Twice ==
    << ModuleSpec("E", <<>>,
                  <<ProvSpec("state", DeclArgs("k", Raw("vE"), "local", "append"))>>,
                  <<Fn("E.load1")>>, <<Fn("E.unload1")>>),
       ModuleSpec("M", <<UseSpec(1, UseOptionsIn("local", ""))>>, <<>>, <<>>, <<>>),
       ModuleSpec("A", <<UseSpec(2, UseOptionsIn("s", "")), UseSpec(2, UseOptionsIn("t", ""))>>,
                  <<>>, <<Fn("A.load1")>>, <<>>) >>

\* the compositions in which a module is reached along two paths
SharingPrograms ==
    {Diamond(scope, into[1], into[2]) :
        scope \in Scopes, into \in {<<"", "">>, <<"global", "">>, <<"s", "s">>, <<"local", "">>}}
    \cup {Twice}

SharingInit ==
    \E program \in SharingPrograms :
        InitWith(BuildProgram(EmptyWorld, <<>>, program, 1)) /\ script = program

SharingNext == AwaitedStart \/ AwaitedStop \/ AwaitedRead \/ Completion \/ Rejection

SharingSpec == SharingInit /\ [][SharingNext]_vars

\* ------------------------------------------------- calls that are not awaited

\* A uses B; each has one onLoad and one onUnload callback.
Pair ==
    << ModuleSpec("B", <<>>, <<>>, <<Fn("B.load1")>>, <<Fn("B.unload1")>>),
       ModuleSpec("A", <<UseSpec(1, <<>>)>>,
                  <<ProvSpec("decorate", DeclArgs("port", Raw("3000"), "local", "append"))>>,
                  <<Fn("A.load1")>>, <<Fn("A.unload1")>>) >>

ConcurrentInit == InitWith(BuildProgram(EmptyWorld, <<>>, Pair, 1)) /\ script = Pair

\* The caller calls start() and stop() without awaiting the calls made
\* before: a call may be made while others are suspended at a callback.
UnawaitedStart == \E throwing \in SUBSET Factories : Start(throwing)
UnawaitedStop == Stop

ConcurrentNext == UnawaitedStart \/ UnawaitedStop \/ Completion \/ Rejection

ConcurrentSpec == ConcurrentInit /\ [][ConcurrentNext]_vars

\* ---------------------------------------------------- a builder script

\* an options object with the properties given (left out when "")
Opts(kind, scope, mode) ==
    Obj((IF kind = "" THEN <<>> ELSE Prop("kind", Str(kind)))
        \o (IF scope = "" THEN <<>> ELSE Prop("scope", Str(scope)))
        \o (IF mode = "" THEN <<>> ELSE Prop("mode", Str(mode))))

\* the argument lists the script passes to decorate(), state(), provide()
DecorateArgs ==
    {<<Str("k"), Raw("v1")>>,
     <<Str("k"), Raw("v1"), Opts("", "global", "")>>,
     <<Str("k"), Raw("v2"), Opts("", "", "override")>>,
     <<Str("k"), Raw("v2"), Opts("", "local", "override")>>,
     <<Str("k"), Raw("v2"), Opts("", "scoped", "override")>>,
     <<Str("decorator"), Raw("v1")>>,
     <<Str("store"), Raw("v1")>>,
     <<Obj(Prop("k2", Raw("v1")) \o Prop("decorator", Raw("v2")))>>}
StateArgs ==
    {<<Str("k"), Raw("v1")>>,
     <<Str("k"), Fn("f")>>,
     <<Obj(Prop("k", Fn("f")))>>,
     <<Str("k"), Raw("v2"), Opts("", "", "override")>>,
     <<Str("store"), Raw("v1"), Opts("", "global", "override")>>}
ProvideArgs ==
    {<<Str("k"), Raw("v1")>>,
     <<Str("k"), Raw("v1"), Arr(<<>>)>>,
     <<Str("k"), Raw("v1"), Opts("store", "", "")>>,
     <<Str("k"), Raw("v1"), Opts("", "global", "")>>,
     <<Str("k"), Raw("v1"), Opts("store", "scoped", "")>>,
     <<Str("k"), Fn("f"), Opts("store", "local", "")>>,
     <<Str("k"), Raw("v2"), Opts("decorator", "", "override")>>,
     <<Str("store"), Raw("v1"), Opts("store", "local", "")>>}

\* what the script passes to use(): [arg, options]
UseArgs ==
    {[arg |-> AetherValue(held), options |-> o] :
        o \in {<<>>, UseOptionsIn("s", ""), UseOptionsIn("local", ""), UseOptions("scoped")}}
    \cup {[arg |-> x, options |-> <<>>] :
        x \in {Primitive(Undefined), Primitive(JsNull), Primitive(Str("")), Primitive(Raw("0")),
               Primitive(Str("x")), Primitive(Raw("7")), Primitive(Obj(<<>>)),
               ArrayOf(<<>>),
               ArrayOf(<<AetherValue(held), AetherValue(held)>>),
               ArrayOf(<<AetherValue(held), Primitive(Str("x"))>>),
               Plugin("function", "identity", NoInstance, <<>>),
               Plugin("function", "withLogger", NoInstance, <<>>),
               Plugin("function", "returnsNothing", NoInstance, <<>>)}}

\* the argument lists the script passes to extend()
ExtendArgs ==
    {<<Str("register"), Fn("register")>>,
     <<Str("register")>>,
     <<Obj(Prop("register", Fn("register")))>>}

\* the script starts with
\*   const held = new Aether("plugin").extend("register", register)
\*                                    .state("p", vP, { scope: "global" })
\*   let app = new Aether("app")
HeldPlugin(r) ==
    state(r.w, extend(r.w, r.inst, <<Str("register"), Fn("register")>>).inst,
          DeclArgs("p", Raw("vP"), "global", "append"))

BuilderInitWith(p, a) ==
    /\ defs = a.w.defs
    /\ syms = a.w.syms
    /\ app = a.inst
    /\ held = p.inst
    /\ running = FALSE
    /\ runtimeTree = Null
    /\ nodes = <<>>
    /\ calls = <<>>
    /\ log = <<>>
    /\ observed = NotRead
    /\ made = NoCall
    /\ script = <<>>
    /\ completed = {}

BuilderInitAfter(p) == BuilderInitWith(p, NewAether(p.w, "app"))

BuilderInit == BuilderInitAfter(HeldPlugin(NewAether(EmptyWorld, "plugin")))

\* the receiver of a builder call: app or held
Receiver(onApp) == IF onApp THEN app ELSE held

\* The script calls a builder operation on app and assigns the result to app
\* (app = app.op(...)), or calls it on held and drops the result. r is what
\* the call gave; the script ends when a call throws.
Build(op, onApp, args, arg, options, r) ==
    /\ calls = <<>>
    /\ made.n < MaxBuilds
    /\ made.err = NoErr
    /\ made' = [n |-> made.n + 1, op |-> op, onApp |-> onApp, recv |-> Receiver(onApp),
                args |-> args, arg |-> arg, options |-> options,
                err |-> r.err, inst |-> r.inst, defs |-> defs]
    /\ defs' = r.w.defs
    /\ syms' = r.w.syms
    /\ app' = IF onApp /\ r.err = NoErr THEN r.inst ELSE app
    /\ UNCHANGED <<held, running, runtimeTree, nodes, calls, log, observed, script,
                   completed>>

NoArg == Primitive(Undefined)

Decorate ==
    \E onApp \in BOOLEAN, args \in DecorateArgs :
        Build("decorate", onApp, args, NoArg, <<>>,
              decorate(World(defs, syms), Receiver(onApp), args))
SetState ==
    \E onApp \in BOOLEAN, args \in StateArgs :
        Build("state", onApp, args, NoArg, <<>>,
              state(World(defs, syms), Receiver(onApp), args))
Provide ==
    \E onApp \in BOOLEAN, args \in ProvideArgs :
        Build("provide", onApp, args, NoArg, <<>>,
              provide(World(defs, syms), Receiver(onApp), args))
OnLoad ==
    \E onApp \in BOOLEAN :
        Build("onLoad", onApp, <<Fn("loaded")>>, NoArg, <<>>,
              onLoad(World(defs, syms), Receiver(onApp), Fn("loaded")))
OnUnload ==
    \E onApp \in BOOLEAN :
        Build("onUnload", onApp, <<Fn("unloaded")>>, NoArg, <<>>,
              onUnload(World(defs, syms), Receiver(onApp), Fn("unloaded")))
Use ==
    \E onApp \in BOOLEAN, u \in UseArgs :
        Build("use", onApp, <<>>, u.arg, u.options,
              use(World(defs, syms), Receiver(onApp), u.arg, u.options))
Extend ==
    \E onApp \in BOOLEAN, args \in ExtendArgs :
        Build("extend", onApp, args, NoArg, <<>>,
              extend(World(defs, syms), Receiver(onApp), args))
\* app.ext.register("ping"), when the instance has the extension
Ext ==
    \E onApp \in BOOLEAN :
        /\ MapHas(Receiver(onApp).ext, "register")
        /\ Build("ext", onApp, <<Str("register"), Str("ping")>>, NoArg, <<>>,
                 ext(World(defs, syms), Receiver(onApp), "register", <<Str("ping")>>))

\* the script ends with await app.start()
BuiltStart ==
    /\ calls = <<>>
    /\ made.n > 0
    /\ made.err = NoErr
    /\ AwaitedStart

BuilderNext ==
    \/ Decorate \/ SetState \/ Provide \/ OnLoad \/ OnUnload \/ Use \/ Extend \/ Ext
    \/ BuiltStart \/ Completion \/ Rejection

BuilderSpec == BuilderInit /\ [][BuilderNext]_vars

\* ------------------------------------------------- reading a behaviour

Calls == 1..Len(calls)

\* the calls that passed their guard: a start() that built a tree, a stop()
\* that found the instance running
Starts == {c \in Calls : calls[c].op = "start" /\ calls[c].order # <<>>}
Stops == {c \in Calls : calls[c].op = "stop" /\ calls[c].order # <<>>}

\* the events of call c, in order
OfCall(e, c) == e.call = c
Trace(c) == SelectSeq(log, LAMBDA e : OfCall(e, c))

\* the root of the tree start() call c built, or stop() call c read
TreeOf(c) == (CHOOSE p \in 1..Len(log) :
                 log[p].call = c /\ log[p].ev \in {"tree", "stopping"})

Root(c) == log[TreeOf(c)].node

RECURSIVE Below(_)
\* the nodes node n reaches through its use edges
Below(n) ==
    UNION {{nodes[n].children[i]} \cup Below(nodes[n].children[i]) :
              i \in 1..Len(nodes[n].children)}

\* the place of node n in order
Place(order, n) == CHOOSE p \in 1..Len(order) : order[p] = n

Names(order) == [p \in 1..Len(order) |-> nodes[order[p]].name]

\* the nodes that use node n directly
Parents(n) ==
    {m \in 1..Len(nodes) : \E i \in 1..Len(nodes[m].children) : nodes[m].children[i] = n}

IsInvocation(e) == e.ev \in {"init", "initThrew", "load"}
\* what start() call c did to which node, in order: [node, cb], cb = 0 for
\* the node's resolution and j for its j-th onLoad callback
Did(e) == <<e.node, e.cb>>
Loading(c) ==
    LET t == SelectSeq(Trace(c), IsInvocation)
    IN  [p \in 1..Len(t) |-> Did(t[p])]

RECURSIVE InLoadOrder(_, _)
\* the resolutions and onLoad invocations a start() over order makes when
\* nothing throws, from node i on
InLoadOrder(order, i) ==
    IF i > Len(order) THEN <<>>
    ELSE <<<<order[i], 0>>>>
         \o [j \in 1..Len(defs[nodes[order[i]].def].loadCallbacks) |-> <<order[i], j>>]
         \o InLoadOrder(order, i + 1)

IsPrefix(s, t) == Len(s) <= Len(t) /\ \A p \in 1..Len(s) : s[p] = t[p]

\* order is a post-order of the tree under root: every node of the tree once,
\* each after the nodes it reaches, and of two children of one node the one
\* declared first comes first when the other is reached through no other edge
PostOrder(order, root) ==
    /\ Cardinality({order[p] : p \in 1..Len(order)}) = Len(order)
    /\ {order[p] : p \in 1..Len(order)} = {root} \cup Below(root)
    /\ \A p \in 1..Len(order) : Below(order[p]) \subseteq {order[q] : q \in 1..(p - 1)}
    /\ \A p \in 1..Len(order) :
          LET kids == nodes[order[p]].children
          IN  \A i, j \in 1..Len(kids) :
                 (i < j /\ kids[i] # kids[j] /\ Parents(kids[j]) = {order[p]}
                        /\ kids[j] \notin Below(kids[i]))
                 => Place(order, kids[i]) < Place(order, kids[j])

\* every node of the tree under root has at most one child
IsChain(root) == \A n \in {root} \cup Below(root) : Len(nodes[n].children) <= 1

\* C1: every start() that builds a tree resolves the nodes and invokes their
\* onLoad callbacks in load order, a post-order of the tree (each node once,
\* after the nodes it uses, siblings in edge declaration order): what it has
\* done so far is a prefix of that order, all of it once it has returned; on a
\* chain the load order runs from the deepest module up to the root.
C1_LoadOrder ==
    \A c \in Starts :
        /\ PostOrder(calls[c].order, Root(c))
        /\ IF calls[c].status = "returned"
           THEN Loading(c) = InLoadOrder(calls[c].order, 1)
           ELSE IsPrefix(Loading(c), InLoadOrder(calls[c].order, 1))
        /\ IsChain(Root(c)) =>
              \A p \in 1..Len(calls[c].order) - 1 :
                  nodes[calls[c].order[p + 1]].children = <<calls[c].order[p]>>

\* a start() of the diamond A uses B, C; B, C use D has returned after loading
\* D, B, C, A in this order
C1_Witness ==
    \E c \in Starts :
        /\ calls[c].status = "returned"
        /\ Names(calls[c].order) = <<"D", "B", "C", "A">>
        /\ Len(Loading(c)) = 7

\* ------------------------------------------------- the lifecycle, read off
\* the calls made so far

\* the last call before call c that passed its guard, 0 when there is none
LastBefore(c) ==
    LET S == {d \in 1..(c - 1) : calls[d].order # <<>>}
    IN  IF S = {} THEN 0 ELSE CHOOSE d \in S : \A e \in S : e <= d

\* after call d (0: construction) the instance is Running: d is a start()
\* that returned
RunningAfter(d) == d # 0 /\ calls[d].op = "start" /\ calls[d].status = "returned"

\* after call d (0: construction) the instance is NotStarted: nothing was
\* started, or d is a stop() that settled or a start() that threw
NotStartedAfter(d) ==
    \/ d = 0
    \/ calls[d].op = "stop" /\ calls[d].status \in {"returned", "threw"}
    \/ calls[d].op = "start" /\ calls[d].status = "threw"

\* call c returned at its guard and did nothing
NoWork(c) == calls[c].order = <<>> /\ calls[c].status = "returned" /\ Trace(c) = <<>>

TreeNodes(root) == {root} \cup Below(root)

\* the nodes some start() built
BuiltNodes == UNION {TreeNodes(Root(s)) : s \in Starts}

IsUnload(e) == e.ev = "unload"
\* the onUnload callbacks stop() call c invoked, in order: [node, j]
Unloading(c) ==
    LET t == SelectSeq(Trace(c), IsUnload)
    IN  [p \in 1..Len(t) |-> Did(t[p])]

RECURSIVE InUnloadOrder(_, _)
\* the onUnload invocations a stop() over order makes when nothing throws
InUnloadOrder(order, i) ==
    IF i > Len(order) THEN <<>>
    ELSE [j \in 1..Len(defs[nodes[order[i]].def].unloadCallbacks) |-> <<order[i], j>>]
         \o InUnloadOrder(order, i + 1)

\* C2: every stop() that finds the instance running visits the nodes in the
\* reverse of the load order of the start() before it, each node once, and
\* invokes their onUnload callbacks in that order, so a module's callbacks run
\* before those of every module it uses: what it has done so far is a prefix
\* of that order, all of it once it has returned.
C2_UnloadOrder ==
    \A c \in Stops :
        LET s == LastBefore(c)
            order == calls[c].order
            unloaded == Unloading(c)
        IN  /\ s \in Starts
            /\ calls[s].status = "returned"
            /\ Root(c) = Root(s)
            /\ Len(order) = Len(calls[s].order)
            /\ \A p \in 1..Len(order) : order[p] = calls[s].order[Len(order) + 1 - p]
            /\ \A p, q \in 1..Len(order) : order[p] = order[q] => p = q
            /\ IsPrefix(unloaded, InUnloadOrder(order, 1))
            /\ calls[c].status = "returned" => unloaded = InUnloadOrder(order, 1)
            /\ \A p, q \in 1..Len(unloaded) :
                  unloaded[q][1] \in Below(unloaded[p][1]) => p < q

\* a stop() of the chain A uses B uses C uses D has returned after unloading
\* A, C and D in this order (B has no onUnload callback)
C2_Witness ==
    \E c \in Stops :
        /\ calls[c].status = "returned"
        /\ Names(calls[c].order) = <<"A", "B", "C", "D">>
        /\ [p \in 1..Len(Unloading(c)) |-> nodes[Unloading(c)[p][1]].name] = <<"A", "C", "D">>

\* C3: a start() called while the instance is Running returns at once: it
\* builds no tree, resolves no provider and invokes no callback, the tree and
\* the running flag stay as the start() before it left them, and no onLoad
\* callback of a tree is invoked twice.
C3_StartWhileRunning ==
    /\ \A c \in Calls :
          (calls[c].op = "start" /\ RunningAfter(LastBefore(c)))
          => /\ NoWork(c)
             /\ c = Len(calls) => (running /\ runtimeTree = Root(LastBefore(c)))
    /\ LET built == BuiltNodes
       IN  \A n \in 1..Len(nodes) : n \in built
    /\ LET invoked == SelectSeq(log, LAMBDA e : e.ev = "load")
       IN  Cardinality({Did(invoked[p]) : p \in 1..Len(invoked)}) = Len(invoked)

\* a start() was called right after a start() that returned
C3_Witness ==
    /\ Len(calls) >= 2
    /\ calls[Len(calls)].op = "start"
    /\ calls[Len(calls)].status = "returned"
    /\ LastBefore(Len(calls)) = Len(calls) - 1
    /\ RunningAfter(Len(calls) - 1)

\* C4: a stop() called while the instance is NotStarted (nothing started yet,
\* or the stop() or failed start() before it has settled) returns at once: it
\* invokes no callback and the instance stays NotStarted.
C4_StopWhileNotStarted ==
    \A c \in Calls :
        (calls[c].op = "stop" /\ NotStartedAfter(LastBefore(c)))
        => /\ NoWork(c)
           /\ c = Len(calls) => (~running /\ runtimeTree = Null)

\* a stop() was called right after a stop() that unloaded the tree
C4_Witness ==
    /\ Len(calls) >= 2
    /\ calls[Len(calls)].op = "stop"
    /\ calls[Len(calls)].status = "returned"
    /\ LastBefore(Len(calls)) = Len(calls) - 1
    /\ calls[Len(calls) - 1].op = "stop"
    /\ calls[Len(calls) - 1].status = "returned"
    /\ \E p \in 1..Len(log) : log[p].call = Len(calls) - 1 /\ log[p].ev = "unloaded"

\* C5: a read of context made while the instance is NotStarted (nothing
\* started yet, or the last stop() settled, or the last start() threw) raises
\* the not-running error; a read that returns a value returns the callback
\* context of the root of the tree the last start() built and left running.
C5_ContextNotRunning ==
    observed.read =>
        /\ NotStartedAfter(LastBefore(Len(calls) + 1)) => observed.err = ErrNotStarted
        /\ observed.err # ErrNotStarted =>
              /\ observed.err = NoErr
              /\ RunningAfter(LastBefore(Len(calls) + 1))
              /\ runtimeTree = Root(LastBefore(Len(calls) + 1))
              /\ observed.value = nodes[runtimeTree].callbackCtx

\* context was read after a start() that threw
C5_Witness ==
    /\ observed.read
    /\ observed.err = ErrNotStarted
    /\ LastBefore(Len(calls) + 1) # 0
    /\ calls[LastBefore(Len(calls) + 1)].op = "start"
    /\ calls[LastBefore(Len(calls) + 1)].status = "threw"

IsFailure(e) == e.ev \in {"initThrew", "loadThrew"}

\* what a start() does to a node
IsLoadEvent(e) == e.ev \in {"init", "initThrew", "load", "loaded", "loadThrew"}

\* nothing was done to node n: it was not resolved and no callback of it ran
Untouched(n) ==
    /\ ~nodes[n].initialized
    /\ \A q \in 1..Len(log) : log[q].node = n => log[q].ev = "tree"

\* C6: when the resolution of a node or an onLoad callback throws during a
\* start(), that is the last thing the start() does and it throws the error:
\* the nodes after the failing one in load order are never resolved or loaded,
\* no onUnload callback of the tree is ever invoked, the tree is never the
\* runtime tree again and the instance is not running when the call settles.
C6_FailedStart ==
    \A c \in Starts :
        LET t == Trace(c)
            order == calls[c].order
        IN  /\ \A p \in 1..Len(t) :
                  IsFailure(t[p]) => /\ p = Len(t)
                                     /\ calls[c].status = "threw"
                                     /\ t[p].node = order[calls[c].i]
            /\ calls[c].status = "threw" =>
                  /\ IsFailure(t[Len(t)])
                  /\ t[Len(t)].ev = "loadThrew" => calls[c].err = ErrCallback
                  /\ t[Len(t)].ev = "initThrew"
                        => calls[c].err \in {ErrFactory, ErrCollision, ErrImport}
                  /\ \A p \in (calls[c].i + 1)..Len(order) :
                        Untouched(order[p])
                  /\ \A q \in 1..Len(log) :
                        log[q].ev = "unload" => log[q].node \notin TreeNodes(Root(c))
                  /\ runtimeTree # Root(c)
                  /\ c = Len(calls) => (~running /\ runtimeTree = Null)

\* a start() threw after an onLoad callback had completed and before the last
\* node of the load order was reached
C6_Witness ==
    \E c \in Starts :
        /\ calls[c].status = "threw"
        /\ calls[c].i < Len(calls[c].order)
        /\ \E p \in 1..Len(log) : log[p].call = c /\ log[p].ev = "loaded"

\* C7: a stop() that found the instance running leaves it NotStarted when it
\* settles (isRunning false, context raising, no runtime tree), whether it
\* returned or an onUnload callback threw; a throwing callback is the last
\* thing the stop() does, and the stop() throws its error.
C7_StopSettles ==
    \A c \in Stops :
        LET t == Trace(c)
        IN  /\ \A p \in 1..Len(t) :
                  t[p].ev = "unloadThrew" => /\ p = Len(t)
                                             /\ calls[c].status = "threw"
                                             /\ calls[c].err = ErrCallback
            /\ calls[c].status = "threw" => t[Len(t)].ev = "unloadThrew"
            /\ calls[c].status \in {"returned", "threw"} =>
                  /\ runtimeTree # Root(c)
                  /\ c = Len(calls) =>
                        /\ ~isRunning(Current)
                        /\ runtimeTree = Null
                        /\ context(Current).err = ErrNotStarted

\* the last call is a stop() that threw after an onUnload callback had
\* completed
C7_Witness ==
    /\ Len(calls) \in Stops
    /\ calls[Len(calls)].status = "threw"
    /\ \E p \in 1..Len(log) : log[p].call = Len(calls) /\ log[p].ev = "unloaded"

\* C8: a start() called while the instance is NotStarted builds a tree, also
\* after a stop() or a failed start(); the trees of two start() calls share no
\* node; the nodes the call has not reached yet are not initialized and have
\* done nothing; once the call has returned every node of its tree was
\* resolved once and every onLoad callback of it ran once, all in this call,
\* and the instance is running on this tree.
C8_Restartable ==
    LET loads == SelectSeq(log, IsLoadEvent)
        done == {<<loads[q].ev, loads[q].node, loads[q].cb>> : q \in 1..Len(loads)}
    IN  /\ \A c \in Calls :
              (calls[c].op = "start" /\ NotStartedAfter(LastBefore(c))) => c \in Starts
        /\ \A s, t \in Starts : s < t => TreeNodes(Root(s)) \cap TreeNodes(Root(t)) = {}
        /\ Cardinality(done) = Len(loads)
        /\ \A s \in Starts :
              LET tree == TreeNodes(Root(s))
                  todo == {calls[s].order[p] : p \in (calls[s].i + 1)..Len(calls[s].order)}
              IN  /\ \A q \in 1..Len(loads) : loads[q].call = s => loads[q].node \in tree
                  /\ \A n \in tree : nodes[n].initialized <=> <<"init", n, 0>> \in done
                  /\ calls[s].status = "awaiting" =>
                        /\ \A n \in todo : ~nodes[n].initialized
                        /\ \A q \in 1..Len(loads) : loads[q].node \notin todo
                  /\ calls[s].status = "returned" =>
                        /\ \A n \in tree :
                              /\ nodes[n].initialized
                              /\ \A j \in 1..Len(defs[nodes[n].def].loadCallbacks) :
                                    <<"load", n, j>> \in done /\ <<"loaded", n, j>> \in done
                        /\ s = Len(calls) => (running /\ runtimeTree = Root(s))

\* a start() returned after a start() and a stop() of the earlier tree
C8_Witness ==
    \E s \in Starts :
        /\ calls[s].status = "returned"
        /\ LastBefore(s) \in Stops
        /\ calls[LastBefore(s)].status = "returned"
        /\ Cardinality(TreeNodes(Root(s))) = Cardinality(TreeNodes(Root(LastBefore(s))))

\* ------------------------------------------------- reading the contexts

\* the modules that reach node n through use edges
RECURSIVE Above(_)
Above(n) == UNION {{m} \cup Above(m) : m \in Parents(n)}

\* node m uses node n over a transitive edge
UsesTransitively(m, n) ==
    \E i \in 1..Len(nodes[m].children) :
        nodes[m].children[i] = n /\ defs[nodes[m].def].uses[i].transitive

\* the modules that reach node n through transitive use edges only
RECURSIVE TransitiveAbove(_)
TransitiveAbove(n) ==
    UNION {{m} \cup TransitiveAbove(m) : m \in {m \in 1..Len(nodes) : UsesTransitively(m, n)}}

\* node m declares the key of the kind with mode "override"
Overrides(m, kind, key) ==
    \E i \in 1..Len(defs[nodes[m].def].providers) :
        LET e == defs[nodes[m].def].providers[i]
        IN  e.kind = kind /\ e.key = key /\ e.mode = "override"

\* the modules that reach node n through transitive use edges only, on a path
\* none of whose modules overrides the key
RECURSIVE UnhiddenAbove(_, _, _)
UnhiddenAbove(n, kind, key) ==
    UNION {{m} \cup UnhiddenAbove(m, kind, key) :
              m \in {m \in 1..Len(nodes) : UsesTransitively(m, n) /\ ~Overrides(m, kind, key)}}

\* the declarations of node n that take effect: the last one of each key
Declarations(n) ==
    LET ps == defs[nodes[n].def].providers
    IN  {ps[i] : i \in {i \in 1..Len(ps) :
                           \A j \in (i + 1)..Len(ps) :
                               ~(ps[j].kind = ps[i].kind /\ ps[j].key = ps[i].key)}}

\* the value node n resolved for the key
OwnValue(n, kind, key) == MapGet(nodes[n].providers[kind], key)

\* context[kind] of node m, once resolved, has the key
InContext(m, kind, key) == MapHas(MapGet(nodes[m].callbackCtx.m, kind).m, key)

\* the context of node m has the key of the kind with value v: in
\* context[kind], and for a decorator also on the context itself
HasValue(m, kind, key, v) ==
    /\ InContext(m, kind, key)
    /\ MapGet(MapGet(nodes[m].callbackCtx.m, kind).m, key) = v
    /\ kind = "decorator" => MapGet(nodes[m].callbackCtx.m, key) = v

\* the original statement of C9: every resolved module that reaches the
\* declaring module of a global provider through transitive use edges has the
\* provider in its context, with the declaring module's value
C9_EveryTransitiveAncestor ==
    \A n \in 1..Len(nodes) :
        \A e \in Declarations(n) :
            (e.export /\ e.transitive) =>
                \A m \in TransitiveAbove(n) :
                    nodes[m].initialized => HasValue(m, e.kind, e.key, OwnValue(n, e.kind, e.key))

\* C9: a provider declared with scope "global" is, with the declaring
\* module's resolved value, in the context of every resolved module that
\* reaches the declaring module through transitive use edges, at any depth,
\* on a path none of whose modules redeclares the key with mode "override".
C9_GlobalReachesAncestors ==
    \A n \in 1..Len(nodes) :
        \A e \in Declarations(n) :
            (e.export /\ e.transitive) =>
                \A m \in UnhiddenAbove(n, e.kind, e.key) :
                    nodes[m].initialized => HasValue(m, e.kind, e.key, OwnValue(n, e.kind, e.key))

\* a start() of the chain A uses B uses C uses D has returned, D declares k
\* with scope "global", and A, three levels above D, has D's value of k
C9_Witness ==
    \E s \in Starts :
        /\ calls[s].status = "returned"
        /\ Names(calls[s].order) = <<"D", "C", "B", "A">>
        /\ \E e \in Declarations(calls[s].order[1]) :
              /\ e.key = "k" /\ e.export /\ e.transitive
              /\ Root(s) \in UnhiddenAbove(calls[s].order[1], e.kind, "k")
              /\ Root(s) \notin Parents(calls[s].order[1])
              /\ HasValue(Root(s), e.kind, "k", Raw("vD"))

\* C10: a provider declared with scope "scoped" is in the context of the
\* declaring module, with its resolved value, and in the context of every
\* resolved module that uses the declaring module directly (with the declaring
\* module's value unless the user redeclares the key), and it is in the
\* context of no module that reaches the declaring module only through other
\* modules.
C10_ScopedStopsAtParent ==
    \A n \in 1..Len(nodes) :
        \A e \in Declarations(n) :
            (nodes[n].initialized /\ e.export /\ ~e.transitive) =>
                /\ HasValue(n, e.kind, e.key, OwnValue(n, e.kind, e.key))
                /\ \A m \in Parents(n) :
                      nodes[m].initialized =>
                          /\ InContext(m, e.kind, e.key)
                          /\ (\A d \in Declarations(m) : ~(d.kind = e.kind /\ d.key = e.key))
                                => HasValue(m, e.kind, e.key, OwnValue(n, e.kind, e.key))
                /\ \A m \in Above(n) \ Parents(n) :
                      nodes[m].initialized => ~InContext(m, e.kind, e.key)

\* a start() of the diamond A uses B, C; B, C use D has returned, D declares k
\* with scope "scoped", and B and C have k while A has not
C10_Witness ==
    \E s \in Starts :
        /\ calls[s].status = "returned"
        /\ Names(calls[s].order) = <<"D", "B", "C", "A">>
        /\ \E e \in Declarations(calls[s].order[1]) : e.key = "k" /\ e.export /\ ~e.transitive
        /\ HasValue(calls[s].order[2], "store", "k", Raw("vD"))
        /\ HasValue(calls[s].order[3], "store", "k", Raw("vD"))
        /\ ~InContext(Root(s), "store", "k")

\* node m declares the key of the kind
Declares(m, kind, key) ==
    \E i \in 1..Len(defs[nodes[m].def].providers) :
        defs[nodes[m].def].providers[i].kind = kind /\ defs[nodes[m].def].providers[i].key = key

\* C11: a provider declared with scope "local" is in the resolved declaring
\* module's context with its value, and in the context of no other module of
\* the tree (ancestor, sibling or descendant): another module has the key
\* only when a module other than the declaring one, at or below it, declares
\* the key itself.
C11_LocalStaysHome ==
    \A s \in Starts :
        LET tree == TreeNodes(Root(s))
        IN  \A n \in tree :
                \A e \in {e \in Declarations(n) : ~e.export} :
                    /\ nodes[n].initialized
                          => HasValue(n, e.kind, e.key, OwnValue(n, e.kind, e.key))
                    /\ \A m \in tree \ {n} :
                          (nodes[m].initialized /\ InContext(m, e.kind, e.key))
                          => \E d \in ({m} \cup Below(m)) \ {n} : Declares(d, e.kind, e.key)

\* a start() of the diamond has returned: B has its local b, and A (which
\* uses B), C (beside B) and D (which B uses) have not
C11_Witness ==
    \E s \in Starts :
        /\ calls[s].status = "returned"
        /\ Names(calls[s].order) = <<"D", "B", "C", "A">>
        /\ \E e \in Declarations(calls[s].order[2]) : e.key = "b" /\ ~e.export
        /\ HasValue(calls[s].order[2], "store", "b", Raw("vB"))
        /\ ~InContext(calls[s].order[1], "store", "b")
        /\ ~InContext(calls[s].order[3], "store", "b")
        /\ ~InContext(calls[s].order[4], "store", "b")

\* the use edges of resolved modules made with { as: "scoped" }:
\* <<m, n>> for module m using module n
ScopedEdges ==
    UNION {{<<m, nodes[m].children[i]>> :
               i \in {i \in 1..Len(nodes[m].children) :
                         defs[nodes[m].def].uses[i].transitive = FALSE}} :
           m \in {m \in 1..Len(nodes) : nodes[m].initialized}}

\* the key of the kind comes into module a from nowhere but n and below:
\* no module at or below a, outside n and what n uses, declares it
OnlyFrom(a, n, kind, key) ==
    \A d \in ({a} \cup Below(a)) \ ({n} \cup Below(n)) : ~Declares(d, kind, key)

\* C12: a module m that uses P with { as: "scoped" } has every provider P
\* exports in its context (with P's value unless m declares the key itself),
\* and a provider P propagates is neither exported nor propagated by m, and is
\* in the context of no module above m, unless it comes from elsewhere.
C12_ScopedUse ==
    \A edge \in ScopedEdges :
        \A kind \in {"decorator", "store"} :
            /\ \A key \in MapKeys(nodes[edge[2]].exportedProviders[kind]) :
                  /\ InContext(edge[1], kind, key)
                  /\ ~Declares(edge[1], kind, key)
                        => HasValue(edge[1], kind, key,
                                    MapGet(nodes[edge[2]].exportedProviders[kind], key))
            /\ \A key \in MapKeys(nodes[edge[2]].propagatedProviders[kind]) :
                  /\ OnlyFrom(edge[1], edge[2], kind, key)
                        => /\ ~MapHas(nodes[edge[1]].exportedProviders[kind], key)
                           /\ ~MapHas(nodes[edge[1]].propagatedProviders[kind], key)
                  /\ \A a \in Above(edge[1]) :
                        (nodes[a].initialized /\ OnlyFrom(a, edge[2], kind, key))
                        => ~InContext(a, kind, key)

\* a start() of the chain has returned in which B uses C with
\* { as: "scoped" } and C propagates the global k of D: B has k, exports and
\* propagates nothing, and A has no k
C12_Witness ==
    \E s \in Starts :
        /\ calls[s].status = "returned"
        /\ Names(calls[s].order) = <<"D", "C", "B", "A">>
        /\ <<calls[s].order[3], calls[s].order[2]>> \in ScopedEdges
        /\ MapHas(nodes[calls[s].order[2]].propagatedProviders.store, "k")
        /\ HasValue(calls[s].order[3], "store", "k", Raw("vD"))
        /\ ~MapHas(nodes[calls[s].order[3]].exportedProviders.store, "k")
        /\ ~MapHas(nodes[calls[s].order[3]].propagatedProviders.store, "k")
        /\ ~InContext(calls[s].order[4], "store", "k")

\* use edge i of node p is made under the global scope
GlobalUse(p, i) == defs[nodes[p].def].uses[i].scopeId = GLOBAL_SCOPE

\* <<p, i, q, j>>: two different modules p and q of one tree compose the
\* same definition under the global scope, by their use edges i and j
SharedUses ==
    UNION {{u \in {<<pq[1], i, pq[2], j>> : i \in 1..Len(nodes[pq[1]].children),
                                            j \in 1..Len(nodes[pq[2]].children)} :
               /\ GlobalUse(u[1], u[2]) /\ GlobalUse(u[3], u[4])
               /\ defs[nodes[u[1]].def].uses[u[2]].def = defs[nodes[u[3]].def].uses[u[4]].def} :
           pq \in UNION {{pq \in TreeNodes(Root(s)) \X TreeNodes(Root(s)) : pq[1] < pq[2]} :
                            s \in Starts}}

\* how often call c logged event ev for callback cb (0: the resolution) of node n
Times(c, ev, n, cb) ==
    Cardinality({x \in 1..Len(log) : log[x] = Event(c, ev, n, cb)})

\* C13: when two different modules of one tree compose the same definition
\* under the global scope, both have the same Runtime Node as child; a
\* start() resolves it at most once and invokes each of its onLoad callbacks
\* at most once, exactly once when start() returns; a stop() invokes each of
\* its onUnload callbacks at most once, exactly once when stop() returns; and
\* both modules hold the node's one store value for every key it exports.
C13_SharedModule ==
    \A u \in SharedUses :
        LET p == u[1]
            q == u[3]
            n == nodes[p].children[u[2]]
            m == nodes[q].children[u[4]]
        IN     /\ n = m
               /\ \A s \in Starts :
                     /\ Times(s, "init", n, 0) + Times(s, "initThrew", n, 0) <= 1
                     /\ \A cb \in 1..Len(defs[nodes[n].def].loadCallbacks) :
                           /\ Times(s, "load", n, cb) <= 1
                           /\ (calls[s].status = "returned" /\ n \in TreeNodes(Root(s)))
                                 => Times(s, "load", n, cb) = 1
               /\ \A c \in Stops :
                     \A cb \in 1..Len(defs[nodes[n].def].unloadCallbacks) :
                         /\ Times(c, "unload", n, cb) <= 1
                         /\ (calls[c].status = "returned" /\ n \in TreeNodes(Root(c)))
                               => Times(c, "unload", n, cb) = 1
               /\ (nodes[p].initialized /\ nodes[q].initialized)
                     => \A key \in MapKeys(nodes[n].exportedProviders.store) :
                           /\ ~Declares(p, "store", key)
                                 => HasValue(p, "store", key, OwnValue(n, "store", key))
                           /\ ~Declares(q, "store", key)
                                 => HasValue(q, "store", key, OwnValue(m, "store", key))

\* the diamond whose modules B and C both use D under the global scope was
\* started and stopped: D was resolved once, its onLoad and onUnload callbacks
\* were invoked once each, and B and C hold D's store value of k
C13_Witness ==
    \E s \in Starts, c \in Stops :
        /\ calls[s].status = "returned" /\ calls[c].status = "returned"
        /\ Root(s) = Root(c)
        /\ Names(calls[s].order) = <<"D", "B", "C", "A">>
        /\ <<calls[s].order[2], 1, calls[s].order[3], 1>> \in SharedUses
        /\ Times(s, "init", calls[s].order[1], 0) = 1
        /\ Times(s, "load", calls[s].order[1], 1) = 1
        /\ Times(c, "unload", calls[s].order[1], 1) = 1
        /\ HasValue(calls[s].order[2], "store", "k", Raw("vD"))
        /\ HasValue(calls[s].order[3], "store", "k", Raw("vD"))

\* ------------------------------------------- reading a builder script

\* the last builder call was decorate(), state() or provide()
Declaring == made.op \in {"decorate", "state", "provide"}

\* the options object the last call was written with: its last argument when
\* that is a plain object with a kind, a scope or a mode
Written ==
    LET last == IF made.args = <<>> THEN Undefined ELSE made.args[Len(made.args)]
    IN  IF /\ Len(made.args) >= 2 /\ last.t = "object" /\ ~IsArray(last)
           /\ MapKeys(last.m) \cap {"kind", "scope", "mode"} # {}
        THEN last.m ELSE <<>>

WrittenKind ==
    IF MapHas(Written, "kind") THEN MapGet(Written, "kind").id
    ELSE IF made.op = "state" THEN "store" ELSE "decorator"
WrittenScope == IF MapHas(Written, "scope") THEN MapGet(Written, "scope").id ELSE "local"
WrittenMode == IF MapHas(Written, "mode") THEN MapGet(Written, "mode").id ELSE "append"

\* the keys and values the last call declares
WrittenEntries ==
    IF made.args[1].t = "string" THEN <<[k |-> made.args[1].id, v |-> made.args[2]]>>
    ELSE made.args[1].m

\* the call is written as the operation takes it: provide() with a kind and
\* a scope
WellFormed == made.op = "provide" => {"kind", "scope"} \subseteq MapKeys(Written)

\* the definition of the receiver as it was before the call
Before == made.defs[made.recv.def]

\* the receiver's own declarations had the key for the kind
Had(kind, key) ==
    \E i \in 1..Len(Before.providers) :
        Before.providers[i].kind = kind /\ Before.providers[i].key = key

\* the call made no module: no definition was created, and app is what it was
MadeNothing == defs = made.defs /\ (made.onApp => app = made.recv)

\* the module the call made
Made == defs[made.inst.def]

\* the keys of the last call that are the reserved word of the call's kind
WrittenReserved == {k \in MapKeys(WrittenEntries) : k = RESERVED_KEYS[WrittenKind]}

\* C14: decorate/state/provide written without mode "override" and with no
\* reserved key throw "already defined" and make no module when the
\* receiver's own declarations have a key of the call for the call's kind,
\* whatever the mode of the earlier declaration; otherwise they return a
\* module, also when the receiver has the key for the other kind.
C14_AppendCollides ==
    (Declaring /\ WellFormed /\ WrittenMode = "append" /\ WrittenReserved = {}) =>
        IF \E e \in MapKeys(WrittenEntries) : Had(WrittenKind, e)
        THEN made.err = ErrDefined /\ MadeNothing
        ELSE /\ made.err = NoErr
             /\ Len(defs) > Len(made.defs)
             /\ \A e \in MapKeys(WrittenEntries) :
                   \E i \in 1..Len(Made.providers) :
                       Made.providers[i].kind = WrittenKind /\ Made.providers[i].key = e

\* app declared k with mode "override" and then declared k again for the
\* same kind without a mode: the second call threw and app is what it was
C14_Witness ==
    /\ Declaring /\ WellFormed /\ WrittenMode = "append" /\ made.onApp
    /\ \E i \in 1..Len(Before.providers) :
          /\ Before.providers[i].kind = WrittenKind
          /\ Before.providers[i].key = "k"
          /\ Before.providers[i].mode = "override"
    /\ "k" \in MapKeys(WrittenEntries)
    /\ made.err = ErrDefined
    /\ MadeNothing

\* app was started after the last builder call, which was made on app, and
\* start() returned
Started ==
    /\ made.onApp /\ made.err = NoErr
    /\ calls # <<>> /\ calls[1].status = "returned"

\* the started module exports, and propagates, the key as the scope says
ExportedAs(scope, kind, key) ==
    /\ MapHas(nodes[runtimeTree].exportedProviders[kind], key) <=> scope \in {"scoped", "global"}
    /\ MapHas(nodes[runtimeTree].propagatedProviders[kind], key) <=> scope = "global"

\* C15: a decorate/state/provide written with mode "override", with or
\* without a scope, for a key the receiver already declares for the kind,
\* returns a module; once that module is started its context has the new
\* value for the key, and the key is exported and propagated as the scope
\* written says, and not otherwise.
C15_OverrideAccepted ==
    (Declaring /\ WrittenMode = "override"
        /\ \E e \in MapKeys(WrittenEntries) : Had(WrittenKind, e)) =>
        /\ made.err = NoErr
        /\ Started =>
              \A i \in 1..Len(WrittenEntries) :
                  /\ HasValue(runtimeTree, WrittenKind, WrittenEntries[i].k, WrittenEntries[i].v)
                  /\ ExportedAs(WrittenScope, WrittenKind, WrittenEntries[i].k)

\* definition d has a use edge to definition c
Composes(d, c) == \E i \in 1..Len(defs[d].uses) : defs[d].uses[i].def = c

\* C16: a builder call (decorate, state, provide, onLoad, onUnload, use,
\* extend, ext.register), whether it returns or throws, leaves every
\* definition that existed before it as it was, the receiver's among them
\* (its providers, callbacks and use edges), and leaves the receiver its
\* name, its definition and its extensions; a module that composed held
\* before a call on held is resolved, when started, from held's definition as
\* it was composed: what the call declared is not in its context.
C16_ReceiverUnchanged ==
    made.n > 0 =>
        /\ Len(defs) >= Len(made.defs)
        /\ \A d \in 1..Len(made.defs) : defs[d] = made.defs[d]
        /\ ~made.onApp => held = made.recv
        /\ (made.onApp /\ made.err # NoErr) => app = made.recv
        /\ (/\ ~made.onApp /\ Declaring /\ made.err = NoErr
            /\ Composes(app.def, held.def)
            /\ calls # <<>> /\ calls[1].status = "returned")
              => /\ nodes[nodes[runtimeTree].children[1]].def = held.def
                 /\ \A i \in 1..Len(WrittenEntries) :
                       (~Had(WrittenKind, WrittenEntries[i].k)
                        /\ \A j \in 1..Len(defs[app.def].providers) :
                               defs[app.def].providers[j].key # WrittenEntries[i].k)
                       => ~InContext(runtimeTree, WrittenKind, WrittenEntries[i].k)

\* app composed held, then held.decorate("k", v1, { scope: "global" })
\* returned a new module, and app was started: held's definition is as it
\* was, and app's context has no k
C16_Witness ==
    /\ made.n = 2 /\ ~made.onApp /\ made.op = "decorate" /\ made.err = NoErr
    /\ WrittenScope = "global"
    /\ Composes(app.def, held.def)
    /\ made.inst.def > Len(made.defs)
    /\ defs[held.def] = made.defs[held.def]
    /\ Len(defs[made.inst.def].providers) = Len(defs[held.def].providers) + 1
    /\ calls # <<>> /\ calls[1].status = "returned"
    /\ InContext(runtimeTree, "store", "p")
    /\ ~InContext(runtimeTree, "decorator", "k")

\* the scope identity a use() written with these options asks for, when it is
\* one an earlier call can have asked for: { scope: "local" } makes a new one
\* at every call
WrittenScopeId ==
    IF ~MapHas(made.options, "scope") \/ MapGet(made.options, "scope").id = "global"
    THEN GLOBAL_SCOPE
    ELSE ScopeName(MapGet(made.options, "scope").id)

\* the last call was use(P, options) of a module instance P on a receiver
\* whose use edges had the pair (definition of P, scope identity) already
UsedAgain ==
    /\ made.op = "use" /\ made.arg.t = "aether"
    /\ ~(MapHas(made.options, "scope") /\ MapGet(made.options, "scope").id = "local")
    /\ \E i \in 1..Len(Before.uses) :
          /\ Before.uses[i].def = made.arg.inst.def
          /\ Before.uses[i].scopeId = WrittenScopeId

\* the children of node n built from definition d
ChildrenOf(n, d) == {i \in 1..Len(nodes[n].children) : nodes[nodes[n].children[i]].def = d}

\* C17: use(P, options) on a receiver whose use edges have the pair
\* (definition of P, scope identity) already returns the receiver and makes
\* no definition, so no edge is added and no extension collision is raised,
\* however often it is applied; no definition has two use edges with the
\* same pair; and the module, started, has one Runtime Node for P.
C17_UseAgain ==
    /\ \A d \in 1..Len(defs) :
          \A i, j \in 1..Len(defs[d].uses) :
              (defs[d].uses[i].def = defs[d].uses[j].def
               /\ defs[d].uses[i].scopeId = defs[d].uses[j].scopeId) => i = j
    /\ UsedAgain =>
          /\ made.err = NoErr
          /\ made.inst = made.recv
          /\ MadeNothing
          /\ Started => Cardinality(ChildrenOf(runtimeTree, made.arg.inst.def)) = 1

\* app.use(held) was applied to an app that composed held already, held
\* having an extension app took over at the first use, and app was started:
\* the call returned app as it was, and app has one child
C17_Witness ==
    /\ UsedAgain /\ made.n = 2 /\ made.onApp
    /\ MapHas(made.recv.ext, "register") /\ MapHas(made.arg.inst.ext, "register")
    /\ made.err = NoErr /\ made.inst = made.recv /\ app = made.recv
    /\ Len(defs[app.def].uses) = 1
    /\ Started
    /\ Len(nodes[runtimeTree].children) = 1

\* C18: when the last call, state(...) or provide(...) with kind "store",
\* returned and the module it made is started, context.store has every key
\* of the call with exactly the value written, a function included.
C18_StoreAsWritten ==
    (Declaring /\ WrittenKind = "store" /\ Started) =>
        \A i \in 1..Len(WrittenEntries) :
            HasValue(runtimeTree, "store", WrittenEntries[i].k, WrittenEntries[i].v)

\* C19: a provide(...) whose options do not carry both a kind and a scope
\* throws the configuration error and makes no module.
C19_ProvideNeedsBoth ==
    (made.op = "provide" /\ ~({"kind", "scope"} \subseteq MapKeys(Written))) =>
        made.err = ErrProvideOpts /\ MadeNothing

\* the last call was use(x) with x of one of these types
Used(types) == made.op = "use" /\ made.arg.t \in types

\* x is falsy: undefined, null, "" or 0
UsedFalsy ==
    \/ Used({"undefined", "null"})
    \/ (Used({"string"}) /\ made.arg.id = "")
    \/ (Used({"number"}) /\ made.arg.id = "0")

\* the last call gave the script no builder: it threw, and app is what it was
NoBuilder == made.err # NoErr /\ (made.onApp => app = made.recv)

\* the original statement of C20: use(x) throws the plugin-type error for
\* every x that is not a module instance, an array or a function, and for a
\* function that returns no module instance, and gives no builder
C20_EveryOtherValue ==
    /\ (made.op = "use" /\ made.arg.t \notin {"aether", "array", "function"})
          => made.err = ErrPluginType /\ NoBuilder
    /\ (Used({"function"}) /\ made.arg.id = "returnsNothing" /\ ~Had("decorator", "logger"))
          => made.err = ErrPluginFn /\ NoBuilder

\* C20: use(x) throws the plugin-type error and gives no builder for every x
\* that is not falsy and is not a module instance, an array or a function,
\* and for a function that returns no module instance; for a falsy x it
\* throws nothing and returns the receiver.
C20_PluginType ==
    /\ (made.op = "use" /\ ~UsedFalsy /\ made.arg.t \notin {"aether", "array", "function"})
          => made.err = ErrPluginType /\ NoBuilder
    /\ (Used({"function"}) /\ made.arg.id = "returnsNothing" /\ ~Had("decorator", "logger"))
          => made.err = ErrPluginFn /\ NoBuilder
    /\ UsedFalsy => made.err = NoErr /\ made.inst = made.recv /\ MadeNothing

\* app.use({}) was called with a plain object after a builder call that
\* returned: it threw the plugin-type error and app is what it was
C20_Witness ==
    /\ Used({"object"}) /\ made.onApp /\ made.n = 2
    /\ made.err = ErrPluginType
    /\ app = made.recv
    /\ defs = made.defs

\* C21: decorate/state/provide with a key that is the reserved word of the
\* entry's kind ("decorator" for a decorator, "store" for a store entry), in
\* (key, value) form or among the keys of an object, throw and make no
\* module, whatever the options; the error is the reserved-key error unless
\* a key of the call collided first.
C21_ReservedKey ==
    (Declaring /\ WellFormed /\ WrittenReserved # {}) =>
        /\ made.err # NoErr
        /\ MadeNothing
        /\ (\A k \in MapKeys(WrittenEntries) : ~Had(WrittenKind, k)) => made.err = ErrReserved

\* app.decorate({ k2: v1, decorator: v2 }) was called after a builder call
\* that returned: it threw the reserved-key error and app is what it was,
\* without k2
C21_Witness ==
    /\ Declaring /\ made.onApp /\ made.n = 2
    /\ made.args[1].t = "object"
    /\ WrittenReserved = {"decorator"}
    /\ made.err = ErrReserved
    /\ MadeNothing
    /\ ~Had("decorator", "k2")

\* C22: recv.ext.register(args) calls the registered function with recv as
\* its receiver and returns the module instance the function produced from
\* recv (recv's name and extensions, recv's definition with the callback the
\* function registers added), in a new definition; recv's definition is as
\* it was.
C22_ExtCall ==
    made.op = "ext" =>
        /\ made.err = NoErr
        /\ made.inst.name = made.recv.name
        /\ made.inst.ext = made.recv.ext
        /\ made.inst.def > Len(made.defs)
        /\ Made = [Before EXCEPT !.loadCallbacks = Append(@, Fn("registered"))]
        /\ defs[made.recv.def] = Before
        /\ made.onApp => app = made.inst

\* app composed held, which brought the extension, and app.ext.register was
\* called on the instance use() returned: the result is a new app with the
\* edge to held and the callback, not held
C22_Witness ==
    /\ made.op = "ext" /\ made.onApp /\ made.n = 2
    /\ made.recv.name = "app" /\ Composes(made.recv.def, held.def)
    /\ made.inst.name = "app" /\ made.inst.def # held.def
    /\ Composes(made.inst.def, held.def)
    /\ Made.loadCallbacks = <<Fn("registered")>>
    /\ Before.loadCallbacks = <<>>

\* the last call was use(P, options) of a module instance P the receiver had
\* not composed under the scope identity of the call
UsedAnew == made.op = "use" /\ made.arg.t = "aether" /\ ~UsedAgain

\* the extension names the receiver and P both have
InBoth == MapKeys(made.recv.ext) \cap MapKeys(made.arg.inst.ext)

\* C23: use(P) of a module instance P not yet composed under the call's scope
\* identity throws the extension collision error and makes no module when
\* some extension name is in the receiver's registry and in P's, also when
\* both map the name to the same function; otherwise it returns a module
\* whose registry has the names of both, each with its function.
C23_ExtensionCollision ==
    UsedAnew =>
        IF InBoth # {}
        THEN made.err = ErrCollision /\ MadeNothing
        ELSE /\ made.err = NoErr
             /\ MapKeys(made.inst.ext) = MapKeys(made.recv.ext) \cup MapKeys(made.arg.inst.ext)
             /\ \A k \in MapKeys(made.recv.ext) : MapGet(made.inst.ext, k) = MapGet(made.recv.ext, k)
             /\ \A k \in MapKeys(made.arg.inst.ext) :
                   MapGet(made.inst.ext, k) = MapGet(made.arg.inst.ext, k)

\* app composed held and took over its extension, then composed held again
\* under another scope identity: the name maps to the same function in both
\* registries, and the call threw the collision error
C23_Witness ==
    /\ UsedAnew /\ made.onApp /\ made.n = 2
    /\ Composes(made.recv.def, made.arg.inst.def)
    /\ InBoth = {"register"}
    /\ MapGet(made.recv.ext, "register") = MapGet(made.arg.inst.ext, "register")
    /\ made.err = ErrCollision
    /\ MadeNothing

\* <<p, kind, key>>: two resolved children of node p export the key of the kind
TwiceExported(tree) ==
    UNION {{<<p, kind, key>> :
               kind \in {"decorator", "store"},
               key \in UNION {MapKeys(nodes[nodes[p].children[i]].exportedProviders.decorator)
                              \cup MapKeys(nodes[nodes[p].children[i]].exportedProviders.store) :
                              i \in 1..Len(nodes[p].children)}} :
           p \in tree}

\* the children of node p that are resolved and export the key of the kind
Exporters(p, kind, key) ==
    {i \in 1..Len(nodes[p].children) :
        /\ nodes[nodes[p].children[i]].initialized
        /\ MapHas(nodes[nodes[p].children[i]].exportedProviders[kind], key)}

\* C24: when two children of a node export the same key of the same kind,
\* whatever the mode of their declarations, the node is never resolved: its
\* resolution throws the import collision error, and start() fails.
C24_ImportCollision ==
    \A s \in Starts :
        \A t \in TwiceExported(TreeNodes(Root(s))) :
            Cardinality(Exporters(t[1], t[2], t[3])) >= 2 =>
                /\ ~nodes[t[1]].initialized
                /\ Times(s, "init", t[1], 0) = 0
                /\ calls[s].status # "returned"
                /\ Times(s, "initThrew", t[1], 0) = 1
                      => calls[s].status = "threw" /\ calls[s].err = ErrImport

\* A uses B and C, which both declare k for their parent with mode
\* "override": start() resolved B and C and threw the import collision error
\* at A
C24_Witness ==
    \E s \in Starts :
        /\ Names(calls[s].order) = <<"B", "C", "A">>
        /\ \A i \in 1..2 :
              /\ HasValue(calls[s].order[i], "store", "k", Raw(IF i = 1 THEN "vB" ELSE "vC"))
              /\ \E e \in Declarations(calls[s].order[i]) : e.key = "k" /\ e.mode = "override"
        /\ Cardinality(Exporters(calls[s].order[3], "store", "k")) = 2
        /\ Times(s, "initThrew", calls[s].order[3], 0) = 1
        /\ calls[s].status = "threw" /\ calls[s].err = ErrImport

IsCallbackEvent(e) ==
    e.ev \in {"load", "loaded", "loadThrew", "unload", "unloaded", "unloadThrew"}
\* the invocations and completions of callbacks in call c, in order
CallbackTrace(c) == SelectSeq(Trace(c), IsCallbackEvent)
\* the callback invoked at place p of trace t has completed at place p + 1
CompletedNext(t, p) ==
    /\ t[p + 1].ev \in (IF t[p].ev = "load" THEN {"loaded", "loadThrew"}
                        ELSE {"unloaded", "unloadThrew"})
    /\ t[p + 1].node = t[p].node
    /\ t[p + 1].cb = t[p].cb
\* the invocation at place p of trace t is of the node's first callback, or
\* of the callback registered next after the one invoked before it
InRegistrationOrder(t, p) ==
    IF p > 2 /\ t[p - 2].node = t[p].node THEN t[p].cb = t[p - 2].cb + 1
    ELSE t[p].cb = 1
\* the callbacks invoked in trace t that have not completed in it
InProgress(t) ==
    {p \in 1..Len(t) :
        /\ t[p].ev \in {"load", "unload"}
        /\ \A q \in (p + 1)..Len(t) : ~(t[q].node = t[p].node /\ t[q].cb = t[p].cb)}

\* C25: within one start() and within one stop(), a callback is invoked only
\* when the callback invoked before it has completed, so at most one callback
\* of the call is in progress at any time, and the callbacks of a node are
\* invoked in registration order.
C25_OneAtATime ==
    \A c \in Starts \cup Stops :
        LET t == CallbackTrace(c)
        IN  /\ \A p \in 1..Len(t) :
                  IF p % 2 = 1
                  THEN /\ t[p].ev = (IF calls[c].op = "start" THEN "load" ELSE "unload")
                       /\ InRegistrationOrder(t, p)
                       /\ t[p].cb <= Len(IF calls[c].op = "start"
                                         THEN defs[nodes[t[p].node].def].loadCallbacks
                                         ELSE defs[nodes[t[p].node].def].unloadCallbacks)
                  ELSE CompletedNext(t, p - 1)
            /\ Cardinality(InProgress(t)) <= 1
            /\ InProgress(t) # {} <=> calls[c].status = "awaiting"

\* a start() invoked the second onLoad callback of a node after the first had
\* completed, and a stop() invoked a second onUnload callback after the one
\* before it had completed
C25_Witness ==
    /\ \E c \in Starts :
          \E p \in 1..Len(CallbackTrace(c)) - 2 :
              /\ CallbackTrace(c)[p].ev = "load" /\ CallbackTrace(c)[p].cb = 1
              /\ CallbackTrace(c)[p + 1].ev = "loaded"
              /\ CallbackTrace(c)[p + 2].ev = "load" /\ CallbackTrace(c)[p + 2].cb = 2
              /\ CallbackTrace(c)[p + 2].node = CallbackTrace(c)[p].node
    /\ \E c \in Stops :
          \E p \in 1..Len(CallbackTrace(c)) - 2 :
              /\ CallbackTrace(c)[p].ev = "unload"
              /\ CallbackTrace(c)[p + 1].ev = "unloaded"
              /\ CallbackTrace(c)[p + 2].ev = "unload"

\* the own entries <<n, i>> of the nodes of the tree of start() call s that
\* are async factories and were applied
AsyncApplied(s) ==
    UNION {{<<n, i>> : i \in {j \in 1..Len(defs[nodes[n].def].providers) :
                /\ defs[nodes[n].def].providers[j].isFactory
                /\ IsAsync(defs[nodes[n].def].providers[j].value)
                /\ MapHas(nodes[n].providers[defs[nodes[n].def].providers[j].kind],
                          defs[nodes[n].def].providers[j].key)}} :
           n \in TreeNodes(Root(s))}

OwnEntry(t) == defs[nodes[t[1]].def].providers[t[2]]
\* the value node t[1] holds for its own entry t[2]
Stored(t) == MapGet(nodes[t[1]].providers[OwnEntry(t).kind], OwnEntry(t).key)
\* where in the log the resolution of the node of entry t ended
ResolvedAt(t) ==
    {p \in 1..Len(log) : log[p].ev \in {"init", "initThrew"} /\ log[p].node = t[1]}
\* the values the factories applied after entry t at its node were given for
\* the key of t
GivenLater(t) ==
    {MapGet(MapGet(nodes[t[1]].providers[OwnEntry(<<t[1], j>>).kind],
                   OwnEntry(<<t[1], j>>).key).m,
            OwnEntry(t).key) :
        j \in {j \in (t[2] + 1)..Len(defs[nodes[t[1]].def].providers) :
                  /\ OwnEntry(<<t[1], j>>).isFactory
                  /\ OwnEntry(<<t[1], j>>).kind = "decorator"
                  /\ MapHas(nodes[t[1]].providers.decorator, OwnEntry(<<t[1], j>>).key)}}

\* C26 as stated: the value stored for an async factory's provider, and seen
\* by later factories and by onLoad callbacks, is the factory's completed
\* result, and the factory has completed before the resolution of its node
\* goes on.
C26_FactoryAwaited ==
    \A s \in Starts :
        \A t \in AsyncApplied(s) :
            /\ Stored(t).t = "result"
            /\ \A v \in GivenLater(t) : v.t = "result"
            /\ ResolvedAt(t) # {} => t \in completed

\* C26, amended: start() does not suspend at an async factory. The value
\* stored for the provider, given to the later factories of the node and put
\* in the context the onLoad callbacks receive is the promise the factory
\* returned, and the resolution of the node has ended when that promise
\* completes.
C26_FactoryNotAwaited ==
    \A s \in Starts :
        \A t \in AsyncApplied(s) :
            /\ Stored(t).t = "promise" /\ Stored(t).id = OwnEntry(t).value.id
            /\ \A v \in GivenLater(t) : v = Stored(t)
            /\ (nodes[t[1]].initialized /\ OwnEntry(t).kind = "decorator") =>
                  MapGet(nodes[t[1]].callbackCtx.m, OwnEntry(t).key) = Stored(t)
            /\ t \in completed => ResolvedAt(t) # {}

\* a start() has returned: a node holds the promise of its async factory, a
\* later factory of the node was given that promise, the node's onLoad
\* callback was invoked with a context that holds it, and the promise has
\* completed since
C26_Witness ==
    \E s \in Starts :
        /\ calls[s].status = "returned"
        /\ \E t \in AsyncApplied(s) :
              /\ Stored(t).t = "promise"
              /\ GivenLater(t) = {Stored(t)}
              /\ Times(s, "loaded", t[1], 1) = 1
              /\ t \in completed

\* the module of the script that node n instantiates
ModuleOf(n) == script[CHOOSE m \in 1..Len(script) : script[m].name = nodes[n].name]
\* the scope option written in the i-th use() call of node n's module: ""
\* when none was written
ScopeWritten(n, i) ==
    IF MapHas(ModuleOf(n).uses[i].options, "scope")
    THEN MapGet(ModuleOf(n).uses[i].options, "scope").id ELSE ""
\* the use() call that made edge i of node n: the module and the call's place
UseCall(n, i) == <<nodes[n].name, i>>
\* the edges <<n, i>> of the tree of start() call s
Edges(s) ==
    UNION {{<<n, i>> : i \in 1..Len(nodes[n].children)} : n \in TreeNodes(Root(s))}
EdgeDef(e) == defs[nodes[e[1]].def].uses[e[2]].def
EdgeNode(e) == nodes[e[1]].children[e[2]]
EdgeScope(e) == ScopeWritten(e[1], e[2])
\* each onLoad callback of node n was invoked once in start() call s
LoadedOnce(s, n) ==
    \A j \in 1..Len(defs[nodes[n].def].loadCallbacks) : Times(s, "load", n, j) = 1

\* C27: within one start(), two edges to the same definition lead to the same
\* Runtime Node when both were made with no scope or scope "global", and when
\* both were made with the same scope name; an edge made with scope "local"
\* leads to a node that no edge made by another use() call leads to, and a
\* start() that returns has invoked the onLoad callbacks of each such node.
C27_ScopeIdentity ==
    \A s \in Starts :
        \A e, f \in Edges(s) :
            (e # f /\ EdgeDef(e) = EdgeDef(f)) =>
                /\ (EdgeScope(e) \in {"", "global"} /\ EdgeScope(f) \in {"", "global"})
                      => EdgeNode(e) = EdgeNode(f)
                /\ (EdgeScope(e) = EdgeScope(f) /\ EdgeScope(e) \notin {"", "global", "local"})
                      => EdgeNode(e) = EdgeNode(f)
                /\ (EdgeScope(e) = "local" /\ UseCall(e[1], e[2]) # UseCall(f[1], f[2]))
                      => /\ EdgeNode(e) # EdgeNode(f)
                         /\ calls[s].status = "returned"
                               => LoadedOnce(s, EdgeNode(e)) /\ LoadedOnce(s, EdgeNode(f))

\* the edges of start() call s to one definition, from two different nodes,
\* written with the scopes v and w
EdgesWritten(s, v, w) ==
    {t \in Edges(s) \X Edges(s) :
        /\ t[1][1] # t[2][1]
        /\ EdgeDef(t[1]) = EdgeDef(t[2])
        /\ EdgeScope(t[1]) = v /\ EdgeScope(t[2]) = w}

\* a start() of a diamond returned with one node for D, its onLoad callback
\* invoked once, where B and C both wrote scope "s"
C27_Witness ==
    \E s \in Starts :
        /\ calls[s].status = "returned"
        /\ \E t \in EdgesWritten(s, "s", "s") :
              EdgeNode(t[1]) = EdgeNode(t[2]) /\ LoadedOnce(s, EdgeNode(t[1]))

\* B wrote scope "global" and C none: one node for D
C27_WitnessGlobal ==
    \E s \in Starts :
        /\ calls[s].status = "returned"
        /\ \E t \in EdgesWritten(s, "global", "") : EdgeNode(t[1]) = EdgeNode(t[2])

\* B and C both wrote scope "local": two nodes for D, the onLoad callback of
\* each invoked and completed
C27_WitnessLocal ==
    \E s \in Starts :
        /\ calls[s].status = "returned"
        /\ \E t \in EdgesWritten(s, "local", "local") :
              /\ EdgeNode(t[1]) # EdgeNode(t[2])
              /\ Times(s, "loaded", EdgeNode(t[1]), 1) = 1
              /\ Times(s, "loaded", EdgeNode(t[2]), 1) = 1

\* how many times onUnload callback j of node n was invoked, by any stop()
Unloaded(n, j) ==
    Cardinality({x \in 1..Len(log) :
                    log[x].ev = "unload" /\ log[x].node = n /\ log[x].cb = j})

\* C28 as stated: for every start() that returned, each onUnload callback of
\* each node of its tree is invoked at most once, whatever stop() calls are
\* made and whenever.
C28_UnloadAtMostOnce ==
    \A s \in Starts :
        calls[s].status = "returned" =>
            \A n \in TreeNodes(Root(s)) :
                \A j \in 1..Len(defs[nodes[n].def].unloadCallbacks) : Unloaded(n, j) <= 1

\* node n was resolved, and each of its onLoad callbacks has completed, before
\* place x of the log
LoadedBefore(n, x) ==
    /\ \E p \in 1..(x - 1) : log[p].ev = "init" /\ log[p].node = n
    /\ \A j \in 1..Len(defs[nodes[n].def].loadCallbacks) :
          \E p \in 1..(x - 1) : log[p].ev = "loaded" /\ log[p].node = n /\ log[p].cb = j

\* C29 as stated: whatever start() and stop() calls are made and whenever, an
\* onUnload callback of a node is invoked only after the node was resolved
\* and all its onLoad callbacks have completed.
C29_UnloadAfterLoad ==
    \A x \in 1..Len(log) : log[x].ev = "unload" => LoadedBefore(log[x].node, x)

\* every key of map a is a key of map b with the same value
Within(a, b) == \A k \in MapKeys(a) : MapHas(b, k) /\ MapGet(b, k) = MapGet(a, k)

\* C30: at every node, resolved or not, and whether or not its resolution
\* threw part-way, for each provider kind every key of the propagated map is
\* a key of the exported map with the same value, and every key of the
\* exported map is a key of the local map with the same value.
C30_Nested ==
    \A n \in 1..Len(nodes) :
        \A kind \in Kinds :
            /\ Within(nodes[n].propagatedProviders[kind], nodes[n].exportedProviders[kind])
            /\ Within(nodes[n].exportedProviders[kind], nodes[n].providers[kind])

\* a resolved node took over a key its child propagates and redeclared it for
\* itself with mode "override": the key is in its local map with its own
\* value and in neither of its other maps, while the child's three maps hold
\* the child's value
C30_Witness ==
    \E n \in 1..Len(nodes) :
        /\ nodes[n].initialized
        /\ \E e \in Declarations(n) :
              /\ e.mode = "override" /\ ~e.export
              /\ MapGet(nodes[n].providers[e.kind], e.key) = e.value
              /\ ~MapHas(nodes[n].exportedProviders[e.kind], e.key)
              /\ ~MapHas(nodes[n].propagatedProviders[e.kind], e.key)
              /\ \E i \in 1..Len(nodes[n].children) :
                    /\ MapHas(nodes[nodes[n].children[i]].propagatedProviders[e.kind], e.key)
                    /\ MapGet(nodes[nodes[n].children[i]].providers[e.kind], e.key) # e.value

\* context.decorator of node n, once resolved
DecoratorView(n) == MapGet(nodes[n].callbackCtx.m, "decorator").m

\* C31 as stated: at every resolved node, every decorator key of the node is
\* on the context itself with the value context.decorator has for it, the
\* key "store" included.
C31_FlatView ==
    \A n \in 1..Len(nodes) :
        nodes[n].initialized =>
            \A k \in MapKeys(nodes[n].providers.decorator) :
                /\ MapHas(DecoratorView(n), k)
                /\ MapGet(nodes[n].callbackCtx.m, k) = MapGet(DecoratorView(n), k)

\* the same for every decorator key but "store"
C31_FlatViewButStore ==
    \A n \in 1..Len(nodes) :
        nodes[n].initialized =>
            \A k \in MapKeys(nodes[n].providers.decorator) \ {"store"} :
                /\ MapHas(DecoratorView(n), k)
                /\ MapGet(nodes[n].callbackCtx.m, k) = MapGet(DecoratorView(n), k)

\* <<p, i, j, d>>: the children i and j of node p are different nodes and
\* both reach node d
TwoPaths(tree) ==
    UNION {{<<p, i, j, d>> :
               i \in 1..Len(nodes[p].children), j \in 1..Len(nodes[p].children),
               d \in tree} :
           p \in {n \in tree : Len(nodes[n].children) >= 2}}

\* the provider node d declared as e has reached the resolved child c of a
\* node: c has d below it and exports the key with d's value
ReachedThrough(c, d, e) ==
    /\ d \in Below(c)
    /\ nodes[c].initialized /\ nodes[d].initialized
    /\ MapHas(nodes[c].exportedProviders[e.kind], e.key)
    /\ MapGet(nodes[c].exportedProviders[e.kind], e.key) = OwnValue(d, e.kind, e.key)

\* C32: when a provider that one node declares with scope "global" has
\* reached a node through two different children, the node is never resolved:
\* its resolution throws the import collision error, and start() fails.
C32_NoDeduplication ==
    \A s \in Starts :
        \A t \in TwoPaths(TreeNodes(Root(s))) :
            (t[2] < t[3] /\ nodes[t[1]].children[t[2]] # nodes[t[1]].children[t[3]]) =>
                \A e \in {x \in Declarations(t[4]) : x.export /\ x.transitive} :
                    (/\ ReachedThrough(nodes[t[1]].children[t[2]], t[4], e)
                     /\ ReachedThrough(nodes[t[1]].children[t[3]], t[4], e)) =>
                        /\ ~nodes[t[1]].initialized
                        /\ Times(s, "init", t[1], 0) = 0
                        /\ calls[s].status # "returned"
                        /\ Times(s, "initThrew", t[1], 0) = 1 =>
                              calls[s].status = "threw" /\ calls[s].err = ErrImport

\* the diamond A uses B, C; B, C use D under the global scope, D declaring k
\* with scope "global": one node for D, B and C resolved with D's value of k,
\* and start() threw the import collision error at A
C32_Witness ==
    \E s \in Starts :
        /\ Names(calls[s].order) = <<"D", "B", "C", "A">>
        /\ \E e \in Declarations(calls[s].order[1]) :
              /\ e.key = "k" /\ e.transitive
              /\ ReachedThrough(calls[s].order[2], calls[s].order[1], e)
              /\ ReachedThrough(calls[s].order[3], calls[s].order[1], e)
        /\ Times(s, "init", calls[s].order[1], 0) = 1
        /\ Times(s, "initThrew", calls[s].order[4], 0) = 1
        /\ calls[s].status = "threw" /\ calls[s].err = ErrImport

\* <<p, q>>: two different nodes of the tree that instantiate one definition
SameDefinition(tree) ==
    {t \in tree \X tree : t[1] < t[2] /\ nodes[t[1]].def = nodes[t[2]].def}

\* start() call s resolved node n and invoked each of its onLoad callbacks at
\* most once, exactly once when it returned
ResolvedOnce(s, n) ==
    /\ Times(s, "init", n, 0) + Times(s, "initThrew", n, 0) <= 1
    /\ calls[s].status = "returned" => Times(s, "init", n, 0) = 1
    /\ \A j \in 1..Len(defs[nodes[n].def].loadCallbacks) :
          /\ Times(s, "load", n, j) <= 1
          /\ calls[s].status = "returned" => Times(s, "load", n, j) = 1

\* C33: two Runtime Nodes of one tree that instantiate the same definition
\* have the very same child nodes, whatever scope their edges were made with,
\* "local" included; each such child is one node for one definition, and a
\* start() resolves it and invokes its onLoad callbacks once.
C33_ChildIdentity ==
    \A s \in Starts :
        \A t \in SameDefinition(TreeNodes(Root(s))) :
            /\ nodes[t[1]].children = nodes[t[2]].children
            /\ \A i \in 1..Len(nodes[t[1]].children) :
                  /\ nodes[nodes[t[1]].children[i]].def = defs[nodes[t[1]].def].uses[i].def
                  /\ ResolvedOnce(s, nodes[t[1]].children[i])

\* M was instantiated twice, under the scope names "s" and "t", and composes
\* E with scope "local": both nodes of M have the one node of E as child, and
\* the start() that returned resolved E and invoked its onLoad callback once
C33_Witness ==
    \E s \in Starts :
        /\ calls[s].status = "returned"
        /\ \E t \in SameDefinition(TreeNodes(Root(s))) :
              /\ Len(nodes[t[1]].children) = 1
              /\ nodes[t[1]].children = nodes[t[2]].children
              /\ ScopeWritten(t[1], 1) = "local" /\ ScopeWritten(t[2], 1) = "local"
              /\ {EdgeScope(e) : e \in {f \in Edges(s) : EdgeNode(f) \in {t[1], t[2]}}} = {"s", "t"}
              /\ Times(s, "init", nodes[t[1]].children[1], 0) = 1
              /\ Times(s, "loaded", nodes[t[1]].children[1], 1) = 1

====
